---- MODULE Spec2Model ----
(***************************************************************************)
(* Size negotiation, reference building and the video client of the Sora2  *)
(* helpers (src/src/videos.js), with the command-line tool (src/index.js)  *)
(* and the HTTP server (src/server.js) that call them.                     *)
(*                                                                         *)
(* Strings the code inspects character by character (size strings and size *)
(* labels) are sequences of one-character strings.  MIME types, file names *)
(* and model names are TLA+ strings; the string conversions applied to     *)
(* them (trim, toLowerCase, extname) are tables over the values used here. *)
(* JavaScript numbers are integers; the ratios that the code compares as   *)
(* IEEE doubles are compared as exact fractions.                           *)
(***************************************************************************)
EXTENDS Integers, Sequences, FiniteSets, TLC

VARIABLES
    SORA_DEFAULT_SIZE,  \* process.env.SORA_DEFAULT_SIZE, read once at start-up
    SORA_DEFAULT_MODEL, \* process.env.SORA_DEFAULT_MODEL
    pc,                 \* "idle": no call in progress, "done": a call has settled
    op,                 \* the operation of the call that settled last
    input,              \* its arguments
    output,             \* its return value or the error it threw
    vendorCalls,        \* the calls it made on client.videos, in order
    fsCalls,            \* the calls it made on fs that change the disk, in order
    callerPayload,      \* the payload object of a createVideo caller, after the call
    isRefreshing,       \* public/main.js: let isRefreshing
    autoRefreshTimer,   \* let autoRefreshTimer: TRUE once setInterval has been called
    refreshBtn,         \* #refresh-btn: its disabled and textContent properties
    envIndicator,       \* #env-indicator: its textContent
    videosTableBody,    \* #videos-table tbody: the ids of the rows rendered
    details,            \* #details: what showJson put there
    createResult,       \* #create-result: what showJson put there
    requests,           \* the fetch calls of the page that have not settled
    timeouts,           \* the setTimeout callbacks that have not run, oldest first
    event               \* the handler that ran last and what its refreshVideos did

\* the state of the Node processes
moduleVars == <<SORA_DEFAULT_SIZE, SORA_DEFAULT_MODEL, pc, op, input, output,
                vendorCalls, fsCalls, callerPayload>>

\* the state of the page public/main.js runs in
pageVars == <<isRefreshing, autoRefreshTimer, refreshBtn, envIndicator,
              videosTableBody, details, createResult, requests, timeouts, event>>

vars == <<moduleVars, pageVars>>

----------------------------------------------------------------------------
(* JavaScript values *)

\* the value undefined where a MIME type, a file name or a model is expected
Undefined == "<undefined>"

\* the value undefined where a size string or a size label is expected
UndefinedSize == <<Undefined>>

\* !value for a size string: undefined and '' are falsy
Falsy(value) == value = UndefinedSize \/ value = <<>>

----------------------------------------------------------------------------
(* Bounds of the enumerated inputs *)

\* longest free-form size string
MaxLen == 3

\* characters of the free-form size strings
Alphabet == {"0", "1", "2", "x", "X", " ", "g"}

\* pixel widths and heights of images and of explicit sizes
Dims == {0, 1, 72, 127, 720, 1000, 1024, 1280, 1792, 2000}

----------------------------------------------------------------------------
(* Characters and numbers *)

Digits == {"0", "1", "2", "3", "4", "5", "6", "7", "8", "9"}

DigitValue(c) ==
    CASE c = "0" -> 0 [] c = "1" -> 1 [] c = "2" -> 2 [] c = "3" -> 3
      [] c = "4" -> 4 [] c = "5" -> 5 [] c = "6" -> 6 [] c = "7" -> 7
      [] c = "8" -> 8 [] c = "9" -> 9

DigitChar(d) ==
    CASE d = 0 -> "0" [] d = 1 -> "1" [] d = 2 -> "2" [] d = 3 -> "3"
      [] d = 4 -> "4" [] d = 5 -> "5" [] d = 6 -> "6" [] d = 7 -> "7"
      [] d = 8 -> "8" [] d = 9 -> "9"

\* Number(match[i]) of a string of decimal digits
RECURSIVE Number(_)
Number(digits) ==
    IF digits = <<>> THEN 0
    ELSE 10 * Number(SubSeq(digits, 1, Len(digits) - 1))
         + DigitValue(digits[Len(digits)])

\* String(n) of a non-negative integer
RECURSIVE NumberToString(_)
NumberToString(n) ==
    IF n < 10 THEN <<DigitChar(n)>>
    ELSE Append(NumberToString(n \div 10), DigitChar(n % 10))

Abs(n) == IF n < 0 THEN -n ELSE n

RECURSIVE Gcd(_, _)
Gcd(a, b) == IF b = 0 THEN a ELSE Gcd(b, a % b)

\* the quotient a / b (b > 0) as a fraction in lowest terms
Fraction(a, b) ==
    LET g == Gcd(Abs(a), b) IN [num |-> a \div g, den |-> b \div g]

\* p - q without Math.abs
SignedDiff(p, q) ==
    Fraction(p.num * q.den - q.num * p.den, p.den * q.den)

\* Math.abs(p - q) of two fractions
AbsDiff(p, q) ==
    Fraction(Abs(p.num * q.den - q.num * p.den), p.den * q.den)

\* p < q of two fractions
Less(p, q) == p.num * q.den < q.num * p.den

----------------------------------------------------------------------------
(* Size rule table *)

SizeRule(label, width, height) ==
    [label |-> label, width |-> width, height |-> height]

L1280x720  == <<"1", "2", "8", "0", "x", "7", "2", "0">>
L720x1280  == <<"7", "2", "0", "x", "1", "2", "8", "0">>
L1024x1792 == <<"1", "0", "2", "4", "x", "1", "7", "9", "2">>
L1792x1024 == <<"1", "7", "9", "2", "x", "1", "0", "2", "4">>

MODEL_SIZE_RULES ==
    ("sora-2" :> << SizeRule(L1280x720, 1280, 720),
                    SizeRule(L720x1280, 720, 1280) >>)
    @@
    ("sora-2-pro" :> << SizeRule(L1280x720, 1280, 720),
                        SizeRule(L720x1280, 720, 1280),
                        SizeRule(L1024x1792, 1024, 1792),
                        SizeRule(L1792x1024, 1792, 1024) >>)

\* a size no model supports, as a value of SORA_DEFAULT_SIZE
L1920x1080 == <<"1", "9", "2", "0", "x", "1", "0", "8", "0">>

DEFAULT_SIZE_RULES == MODEL_SIZE_RULES["sora-2"]

getSizeRules(model) ==
    IF model \in DOMAIN MODEL_SIZE_RULES
    THEN MODEL_SIZE_RULES[model]
    ELSE DEFAULT_SIZE_RULES

\* const DEFAULT_VIDEO_SIZE = process.env.SORA_DEFAULT_SIZE || '1280x720'
DEFAULT_VIDEO_SIZE ==
    IF Falsy(SORA_DEFAULT_SIZE) THEN L1280x720 ELSE SORA_DEFAULT_SIZE

\* rule sets a caller passes as the sizeRules argument: the two of the table,
\* the empty one, one with a single orientation, one with two rules of the
\* same aspect ratio
L1024x1024 == <<"1", "0", "2", "4", "x", "1", "0", "2", "4">>
L640x360   == <<"6", "4", "0", "x", "3", "6", "0">>

PortraitOnlyRules == << SizeRule(L720x1280, 720, 1280) >>

SameRatioRules == << SizeRule(L1024x1024, 1024, 1024),
                     SizeRule(L640x360, 640, 360),
                     SizeRule(L1280x720, 1280, 720) >>

RuleSets == { MODEL_SIZE_RULES["sora-2"], MODEL_SIZE_RULES["sora-2-pro"],
              <<>>, PortraitOnlyRules, SameRatioRules }

Labels(sizeRules) == { sizeRules[i].label : i \in 1..Len(sizeRules) }

Range(seq) == { seq[i] : i \in 1..Len(seq) }

----------------------------------------------------------------------------
(* Size resolver *)

\* the undefined a function returns where a rule is expected
NoRule == SizeRule(UndefinedSize, 0, 0)

\* the for loop of chooseSupportedVideoSize over pool[i..]; hasScore is FALSE
\* while bestScore is Number.POSITIVE_INFINITY
RECURSIVE ChooseLoop(_, _, _, _, _, _)
ChooseLoop(pool, i, ratio, best, hasScore, bestScore) ==
    IF i > Len(pool) THEN best
    ELSE LET size      == pool[i]
             sizeRatio == Fraction(size.width, size.height)
             diff      == AbsDiff(sizeRatio, ratio)
         IN  IF ~hasScore \/ Less(diff, bestScore)
             THEN ChooseLoop(pool, i + 1, ratio, size, TRUE, diff)
             ELSE ChooseLoop(pool, i + 1, ratio, best, hasScore, bestScore)

\* chooseSupportedVideoSize with diff <= bestScore in the loop: the last of
\* equally close rules wins
chooseSupportedVideoSizeLastOfEquals(width, height, sizeRules) ==
    IF width = 0 \/ height = 0 \/ Len(sizeRules) = 0 THEN NoRule
    ELSE LET isLandscape == width >= height
             ratio       == Fraction(width, height)
             candidates  == SelectSeq(sizeRules,
                               LAMBDA size : (size.width >= size.height) = isLandscape)
             pool        == IF Len(candidates) > 0 THEN candidates ELSE sizeRules
             Diff(i)     == AbsDiff(Fraction(pool[i].width, pool[i].height), ratio)
             closest     == { i \in 1..Len(pool) :
                                \A j \in 1..Len(pool) : ~Less(Diff(j), Diff(i)) }
         IN  pool[CHOOSE i \in closest : \A j \in closest : j <= i]

\* chooseSupportedVideoSize without the loop: the first rule of the pool
chooseSupportedVideoSizeFirstOfPool(width, height, sizeRules) ==
    IF width = 0 \/ height = 0 \/ Len(sizeRules) = 0 THEN NoRule
    ELSE LET isLandscape == width >= height
             candidates  == SelectSeq(sizeRules,
                               LAMBDA size : (size.width >= size.height) = isLandscape)
             pool        == IF Len(candidates) > 0 THEN candidates ELSE sizeRules
         IN  pool[1]

\* chooseSupportedVideoSize with width > height for isLandscape
chooseSupportedVideoSizeStrictLandscape(width, height, sizeRules) ==
    IF width = 0 \/ height = 0 \/ Len(sizeRules) = 0 THEN NoRule
    ELSE LET isLandscape == width > height
             ratio       == Fraction(width, height)
             candidates  == SelectSeq(sizeRules,
                               LAMBDA size : (size.width >= size.height) = isLandscape)
             pool        == IF Len(candidates) > 0 THEN candidates ELSE sizeRules
         IN  ChooseLoop(pool, 1, ratio, pool[1], FALSE, Fraction(0, 1))

\* chooseSupportedVideoSize without the fall back to the whole rule set
chooseSupportedVideoSizeNoFallback(width, height, sizeRules) ==
    IF width = 0 \/ height = 0 \/ Len(sizeRules) = 0 THEN NoRule
    ELSE LET isLandscape == width >= height
             ratio       == Fraction(width, height)
             pool        == SelectSeq(sizeRules,
                               LAMBDA size : (size.width >= size.height) = isLandscape)
         IN  IF Len(pool) = 0 THEN NoRule
             ELSE ChooseLoop(pool, 1, ratio, pool[1], FALSE, Fraction(0, 1))

chooseSupportedVideoSize(width, height, sizeRules) ==
    IF width = 0 \/ height = 0 \/ Len(sizeRules) = 0 THEN NoRule
    ELSE LET isLandscape == width >= height
             ratio       == Fraction(width, height)
             candidates  == SelectSeq(sizeRules,
                               LAMBDA size : (size.width >= size.height) = isLandscape)
             pool        == IF Len(candidates) > 0 THEN candidates ELSE sizeRules
         IN  ChooseLoop(pool, 1, ratio, pool[1], FALSE, Fraction(0, 1))

----------------------------------------------------------------------------
(* Size strings *)

toLowerCase(c) == CASE c = "X" -> "x" [] c = "G" -> "g" [] OTHER -> c

IsWhitespace(c) == c = " "

IsDigit(c) == c \in Digits

\* .replace(/x+/, 'x'): the first run of x is replaced by one x
ReplaceFirstXRun(s) ==
    LET xs == { i \in 1..Len(s) : s[i] = "x" } IN
    IF xs = {} THEN s
    ELSE LET first == CHOOSE i \in xs : \A j \in xs : i <= j
             last  == CHOOSE j \in first..Len(s) :
                         /\ \A k \in first..j : s[k] = "x"
                         /\ (j = Len(s) \/ s[j + 1] # "x")
         IN  SubSeq(s, 1, first) \o SubSeq(s, last + 1, Len(s))

\* normalizeSizeLabel without toLowerCase
normalizeSizeLabelCaseSensitive(value) ==
    LET str     == IF Falsy(value) THEN <<>> ELSE value
        noSpace == SelectSeq(str, LAMBDA c : ~IsWhitespace(c))
        kept    == SelectSeq(noSpace, LAMBDA c : IsDigit(c) \/ c = "x")
    IN  ReplaceFirstXRun(kept)

normalizeSizeLabel(value) ==
    LET str     == IF Falsy(value) THEN <<>> ELSE value
        lower   == [i \in 1..Len(str) |-> toLowerCase(str[i])]
        noSpace == SelectSeq(lower, LAMBDA c : ~IsWhitespace(c))
        kept    == SelectSeq(noSpace, LAMBDA c : IsDigit(c) \/ c = "x")
    IN  ReplaceFirstXRun(kept)

\* normalized.match(/^(\d+)x(\d+)$/): the position of the x, 0 without a match
MatchWxH(s) ==
    LET at == { i \in 2..(Len(s) - 1) :
                   /\ s[i] = "x"
                   /\ \A k \in (1..Len(s)) \ {i} : IsDigit(s[k]) }
    IN  IF at = {} THEN 0 ELSE CHOOSE i \in at : TRUE

\* the label of the last rule instead of the first
LastLabel(sizeRules) ==
    IF Len(sizeRules) > 0 THEN sizeRules[Len(sizeRules)].label ELSE UndefinedSize

\* sizeRules[0]?.label
FirstLabel(sizeRules) ==
    IF Len(sizeRules) > 0 THEN sizeRules[1].label ELSE UndefinedSize

\* coerceSizeToSupported that hands back what it cannot parse
coerceSizeToSupportedNoDefault(size, sizeRules) ==
    IF Len(sizeRules) = 0 \/ Falsy(size) THEN size
    ELSE LET normalized == normalizeSizeLabel(size)
             x          == MatchWxH(normalized)
             width      == Number(SubSeq(normalized, 1, x - 1))
             height     == Number(SubSeq(normalized, x + 1, Len(normalized)))
             candidate  == chooseSupportedVideoSize(width, height, sizeRules)
         IN  IF normalized \in Labels(sizeRules) THEN normalized
             ELSE IF x # 0 /\ width > 0 /\ height > 0 /\ candidate # NoRule
                  THEN candidate.label
                  ELSE normalized

coerceSizeToSupported(size, sizeRules) ==
    IF Len(sizeRules) = 0 \/ Falsy(size) THEN size
    ELSE LET normalized == normalizeSizeLabel(size)
             x          == MatchWxH(normalized)
             width      == Number(SubSeq(normalized, 1, x - 1))
             height     == Number(SubSeq(normalized, x + 1, Len(normalized)))
             candidate  == chooseSupportedVideoSize(width, height, sizeRules)
         IN  IF normalized \in Labels(sizeRules) THEN normalized
             ELSE IF x # 0 /\ width > 0 /\ height > 0 /\ candidate # NoRule
                  THEN candidate.label
                  ELSE FirstLabel(sizeRules)

----------------------------------------------------------------------------
(* Enumerated size strings *)

\* every string of at most MaxLen characters of Alphabet
FreeStrings == UNION { [1..n -> Alphabet] : n \in 0..MaxLen }

\* what a caller writes around and between the two numbers of a size
Prefixes   == { <<>>, <<" ">>, <<"g">> }
Separators == { <<"x">>, <<"X">>, <<" ", "X", " ">>, <<"x", "x">>, <<"-">>, <<"x", "g", "X">> }
Suffixes   == { <<>>, <<"p">>, <<"x", "x">> }

\* the numbers written in a size string
StringDims == {0, 720, 1000, 1024, 1280, 1792}

SizeStrings ==
    { pre \o NumberToString(w) \o sep \o NumberToString(h) \o post :
        pre \in Prefixes, w \in StringDims, sep \in Separators,
        h \in StringDims, post \in Suffixes }

SizeInputs == FreeStrings \cup SizeStrings \cup {UndefinedSize}

----------------------------------------------------------------------------
(* Outcomes of a function that may throw *)

Returned(value) == [threw |-> FALSE, value |-> value]

Thrown(error) == [threw |-> TRUE, error |-> error]

----------------------------------------------------------------------------
(* MIME types and file names *)

SUPPORTED_INPUT_REFERENCE_MIME_TYPES ==
    << "image/jpeg", "image/png", "image/webp", "video/mp4" >>

\* the MIME types a caller declares
DeclaredMimeTypes ==
    { Undefined, "", "   ", "image/png", "IMAGE/PNG", " image/jpeg ",
      "video/mp4", "image/gif", " Image/GIF", "text/plain" }

\* the file names a caller gives
Filenames ==
    { Undefined, "", "guide.png", "GUIDE.PNG", "photo.jpg", "photo.jpeg",
      "pic.webp", "clip.mp4", "anim.gif", "input-reference.bin", "README" }

\* String.prototype.trim
trim(s) ==
    CASE s = "   " -> ""
      [] s = " image/jpeg " -> "image/jpeg"
      [] s = " Image/GIF" -> "Image/GIF"
      [] OTHER -> s

\* String.prototype.toLowerCase
stringToLowerCase(s) ==
    CASE s = "IMAGE/PNG" -> "image/png"
      [] s = "Image/GIF" -> "image/gif"
      [] s = " Image/GIF" -> " image/gif"
      [] s = ".PNG" -> ".png"
      [] OTHER -> s

\* path.extname
extname(filename) ==
    CASE filename = "guide.png" -> ".png"
      [] filename = "GUIDE.PNG" -> ".PNG"
      [] filename = "photo.jpg" -> ".jpg"
      [] filename = "photo.jpeg" -> ".jpeg"
      [] filename = "pic.webp" -> ".webp"
      [] filename = "clip.mp4" -> ".mp4"
      [] filename = "anim.gif" -> ".gif"
      [] filename = "input-reference.bin" -> ".bin"
      [] OTHER -> ""

\* !value for a string: undefined and '' are falsy
FalsyString(value) == value = Undefined \/ value = ""

\* inferMimeType comparing the extension as it is written
inferMimeTypeCaseSensitive(filename, fallbackMimeType) ==
    LET normalized == stringToLowerCase(trim(fallbackMimeType))
        ext == extname(IF FalsyString(filename) THEN "" ELSE filename)
    IN  IF /\ ~FalsyString(fallbackMimeType)
           /\ trim(fallbackMimeType) # ""
           /\ normalized \in Range(SUPPORTED_INPUT_REFERENCE_MIME_TYPES)
        THEN normalized
        ELSE CASE ext \in {".jpg", ".jpeg"} -> "image/jpeg"
               [] ext = ".png" -> "image/png"
               [] ext = ".webp" -> "image/webp"
               [] ext = ".mp4" -> "video/mp4"
               [] OTHER -> IF FalsyString(fallbackMimeType) THEN Undefined
                           ELSE fallbackMimeType

\* inferMimeType falling back to the normalized declared type
inferMimeTypeNormalizedFallback(filename, fallbackMimeType) ==
    LET normalized == stringToLowerCase(trim(fallbackMimeType))
        ext == stringToLowerCase(extname(IF FalsyString(filename) THEN "" ELSE filename))
    IN  IF /\ ~FalsyString(fallbackMimeType)
           /\ trim(fallbackMimeType) # ""
           /\ normalized \in Range(SUPPORTED_INPUT_REFERENCE_MIME_TYPES)
        THEN normalized
        ELSE CASE ext \in {".jpg", ".jpeg"} -> "image/jpeg"
               [] ext = ".png" -> "image/png"
               [] ext = ".webp" -> "image/webp"
               [] ext = ".mp4" -> "video/mp4"
               [] OTHER -> IF FalsyString(fallbackMimeType) THEN Undefined
                           ELSE normalized

inferMimeType(filename, fallbackMimeType) ==
    LET normalized == stringToLowerCase(trim(fallbackMimeType))
        ext == stringToLowerCase(extname(IF FalsyString(filename) THEN "" ELSE filename))
    IN  IF /\ ~FalsyString(fallbackMimeType)
           /\ trim(fallbackMimeType) # ""
           /\ normalized \in Range(SUPPORTED_INPUT_REFERENCE_MIME_TYPES)
        THEN normalized
        ELSE CASE ext \in {".jpg", ".jpeg"} -> "image/jpeg"
               [] ext = ".png" -> "image/png"
               [] ext = ".webp" -> "image/webp"
               [] ext = ".mp4" -> "video/mp4"
               [] OTHER -> IF FalsyString(fallbackMimeType) THEN Undefined
                           ELSE fallbackMimeType

\* the error without the file name
UnsupportedTypeErrorUnnamed(filename) ==
    [ message   |-> "Unsupported input_reference file type",
      filename  |-> Undefined,
      supported |-> SUPPORTED_INPUT_REFERENCE_MIME_TYPES ]

\* the Error thrown for a file type outside the supported set; its message
\* is "Unsupported input_reference file type", then ' for "<filename>"' when
\* there is a file name, then the supported types joined by ', '
UnsupportedTypeError(filename) ==
    [ message   |-> "Unsupported input_reference file type",
      filename  |-> IF FalsyString(filename) THEN Undefined ELSE filename,
      supported |-> SUPPORTED_INPUT_REFERENCE_MIME_TYPES ]

\* ensureSupportedMimeType that lets every image type pass
ensureSupportedMimeTypeAnyImage(mimeType, filename) ==
    LET normalized ==
            stringToLowerCase(trim(IF FalsyString(mimeType) THEN "" ELSE mimeType))
    IN  IF /\ normalized \notin Range(SUPPORTED_INPUT_REFERENCE_MIME_TYPES)
           /\ normalized # "image/gif"
        THEN Thrown(UnsupportedTypeError(filename))
        ELSE Returned(normalized)

ensureSupportedMimeType(mimeType, filename) ==
    LET normalized ==
            stringToLowerCase(trim(IF FalsyString(mimeType) THEN "" ELSE mimeType))
    IN  IF normalized \notin Range(SUPPORTED_INPUT_REFERENCE_MIME_TYPES)
        THEN Thrown(UnsupportedTypeError(filename))
        ELSE Returned(normalized)

\* mimeType.startsWith('image/')
isImageMimeType(mimeType) ==
    mimeType \in {"image/jpeg", "image/png", "image/webp", "image/gif"}

mimeTypeToSharpFormat(mimeType) ==
    CASE mimeType = "image/jpeg" -> "jpeg"
      [] mimeType = "image/png" -> "png"
      [] mimeType = "image/webp" -> "webp"
      [] OTHER -> Undefined

----------------------------------------------------------------------------
(* Byte buffers *)

\* A buffer is known by where its bytes come from (content), the encoding
\* sharp gave it (format), whether image-size can read its header (readable)
\* and with which dimensions, and whether sharp can decode it (decodable).
Buffer(content, format, readable, width, height, decodable) ==
    [ content |-> content, format |-> format, readable |-> readable,
      width |-> width, height |-> height, decodable |-> decodable ]

\* the value undefined where a buffer is expected
NoBuffer == Buffer("none", Undefined, FALSE, 0, 0, FALSE)

Image(width, height) == Buffer("input", Undefined, TRUE, width, height, TRUE)

\* a readable header followed by bytes sharp cannot decode
Truncated(width, height) == Buffer("input", Undefined, TRUE, width, height, FALSE)

\* bytes that are no image (an MP4 stream, a damaged file)
NotAnImage == Buffer("input", Undefined, FALSE, 0, 0, FALSE)

\* widths and heights of the images given as references
ImageDims == {0, 720, 1000, 1024, 1280, 1792, 2000}

Buffers ==
    { Image(w, h) : w \in ImageDims, h \in ImageDims }
    \cup { Truncated(2000, 1000), Truncated(1280, 720), NotAnImage }

\* the value undefined where { width, height } is expected
NoDimensions == [width |-> 0, height |-> 0]

getImageDimensions(buffer) ==
    IF buffer.readable /\ buffer.width # 0 /\ buffer.height # 0
    THEN [width |-> buffer.width, height |-> buffer.height]
    ELSE NoDimensions

\* the pipeline with width and height exchanged
SharpCallSwapped(buffer, width, height, format) ==
    [ of |-> buffer, width |-> height, height |-> width, fit |-> "cover",
      format |-> format ]

\* one sharp pipeline: resize(width, height, { fit: 'cover' }), toFormat(format)
\* when there is a format, toBuffer()
SharpCall(buffer, width, height, format) ==
    [ of |-> buffer, width |-> width, height |-> height, fit |-> "cover",
      format |-> format ]

sharpToBuffer(call) ==
    IF call.of.decodable
    THEN Returned(Buffer("resized", call.format, TRUE, call.width, call.height, TRUE))
    ELSE Thrown([message |-> "Input buffer contains unsupported image format"])

----------------------------------------------------------------------------
(* Reference builder *)

\* the outcome of a builder step and the sharp pipelines it ran
Built(outcome, sharpCalls) == [outcome |-> outcome, sharpCalls |-> sharpCalls]

Alignment(buffer, sizeLabel) == [buffer |-> buffer, sizeLabel |-> sizeLabel]

\* alignBufferToSupportedSize choosing among the default rules
alignBufferToDefaultSize(buffer, mimeType, sizeRules) ==
    LET baseDimensions == getImageDimensions(buffer)
        targetSize == chooseSupportedVideoSize(baseDimensions.width,
                                               baseDimensions.height,
                                               DEFAULT_SIZE_RULES)
        format  == mimeTypeToSharpFormat(mimeType)
        call    == SharpCall(buffer, targetSize.width, targetSize.height, format)
        resized == sharpToBuffer(call)
    IN  IF ~isImageMimeType(mimeType) \/ Len(sizeRules) = 0
        THEN Built(Returned(Alignment(buffer, UndefinedSize)), <<>>)
        ELSE IF baseDimensions = NoDimensions
        THEN Built(Returned(Alignment(buffer, UndefinedSize)), <<>>)
        ELSE IF targetSize = NoRule
        THEN Built(Returned(Alignment(buffer, UndefinedSize)), <<>>)
        ELSE IF /\ targetSize.width = baseDimensions.width
                /\ targetSize.height = baseDimensions.height
        THEN Built(Returned(Alignment(buffer, targetSize.label)), <<>>)
        ELSE IF resized.threw
        THEN Built(resized, <<call>>)
        ELSE Built(Returned(Alignment(resized.value, targetSize.label)), <<call>>)

\* alignBufferToSupportedSize without the test of the MIME type
alignBufferOfAnyType(buffer, mimeType, sizeRules) ==
    LET baseDimensions == getImageDimensions(buffer)
        targetSize == chooseSupportedVideoSize(baseDimensions.width,
                                               baseDimensions.height, sizeRules)
        format  == mimeTypeToSharpFormat(mimeType)
        call    == SharpCall(buffer, targetSize.width, targetSize.height, format)
        resized == sharpToBuffer(call)
    IN  IF Len(sizeRules) = 0
        THEN Built(Returned(Alignment(buffer, UndefinedSize)), <<>>)
        ELSE IF baseDimensions = NoDimensions
        THEN Built(Returned(Alignment(buffer, UndefinedSize)), <<>>)
        ELSE IF targetSize = NoRule
        THEN Built(Returned(Alignment(buffer, UndefinedSize)), <<>>)
        ELSE IF /\ targetSize.width = baseDimensions.width
                /\ targetSize.height = baseDimensions.height
        THEN Built(Returned(Alignment(buffer, targetSize.label)), <<>>)
        ELSE IF resized.threw
        THEN Built(resized, <<call>>)
        ELSE Built(Returned(Alignment(resized.value, targetSize.label)), <<call>>)

\* alignBufferToSupportedSize without the test for equal dimensions
alignBufferAlwaysResizing(buffer, mimeType, sizeRules) ==
    LET baseDimensions == getImageDimensions(buffer)
        targetSize == chooseSupportedVideoSize(baseDimensions.width,
                                               baseDimensions.height, sizeRules)
        format  == mimeTypeToSharpFormat(mimeType)
        call    == SharpCall(buffer, targetSize.width, targetSize.height, format)
        resized == sharpToBuffer(call)
    IN  IF ~isImageMimeType(mimeType) \/ Len(sizeRules) = 0
        THEN Built(Returned(Alignment(buffer, UndefinedSize)), <<>>)
        ELSE IF baseDimensions = NoDimensions
        THEN Built(Returned(Alignment(buffer, UndefinedSize)), <<>>)
        ELSE IF targetSize = NoRule
        THEN Built(Returned(Alignment(buffer, UndefinedSize)), <<>>)
        ELSE IF resized.threw
        THEN Built(resized, <<call>>)
        ELSE Built(Returned(Alignment(resized.value, targetSize.label)), <<call>>)

\* lines 259-263: the resize of buffer to targetSize
resizeToTarget(buffer, targetSize, format) ==
    LET call    == SharpCall(buffer, targetSize.width, targetSize.height, format)
        resized == sharpToBuffer(call)
    IN  IF resized.threw
        THEN Built(resized, <<call>>)
        ELSE Built(Returned(Alignment(resized.value, targetSize.label)), <<call>>)

\* lines 248-263: what follows the choice of targetSize
alignToTarget(buffer, mimeType, baseDimensions, targetSize) ==
    IF targetSize = NoRule
    THEN Built(Returned(Alignment(buffer, UndefinedSize)), <<>>)
    ELSE IF /\ targetSize.width = baseDimensions.width
            /\ targetSize.height = baseDimensions.height
    THEN Built(Returned(Alignment(buffer, targetSize.label)), <<>>)
    ELSE resizeToTarget(buffer, targetSize, mimeTypeToSharpFormat(mimeType))

alignBufferToSupportedSize(buffer, mimeType, sizeRules) ==
    LET baseDimensions == getImageDimensions(buffer) IN
    IF ~isImageMimeType(mimeType) \/ Len(sizeRules) = 0
    THEN Built(Returned(Alignment(buffer, UndefinedSize)), <<>>)
    ELSE IF baseDimensions = NoDimensions
    THEN Built(Returned(Alignment(buffer, UndefinedSize)), <<>>)
    ELSE alignToTarget(buffer, mimeType, baseDimensions,
                       chooseSupportedVideoSize(baseDimensions.width,
                                                baseDimensions.height, sizeRules))

\* OpenAI.toFile(buffer, filename, { type })
toFile(buffer, filename, type) ==
    [buffer |-> buffer, name |-> filename, type |-> type]

\* the value undefined where an uploadable file is expected
NoFile == toFile(NoBuffer, Undefined, Undefined)

\* { file, mimeType, sizeLabel }; kind tells a builder's object ("meta") from
\* an uploadable passed as it is ("file") and from no reference ("none")
Reference(kind, file, mimeType, sizeLabel) ==
    [kind |-> kind, file |-> file, mimeType |-> mimeType, sizeLabel |-> sizeLabel]

NoReference == Reference("none", NoFile, Undefined, UndefinedSize)

\* lines 233-235: the reference made of the aligned bytes
referenceOf(alignment, filename, mimeType) ==
    IF alignment.outcome.threw THEN alignment
    ELSE Built(Returned(Reference("meta",
                                  toFile(alignment.outcome.value.buffer, filename,
                                         mimeType),
                                  mimeType, alignment.outcome.value.sizeLabel)),
               alignment.sharpCalls)

buildInputReference(data, filename, explicitMimeType, sizeRules) ==
    LET inferredMime == inferMimeType(filename, explicitMimeType)
        mimeType  == ensureSupportedMimeType(inferredMime, filename)
    IN  IF mimeType.threw THEN Built(mimeType, <<>>)
        ELSE referenceOf(alignBufferToSupportedSize(data, mimeType.value, sizeRules),
                         filename, mimeType.value)

createInputReferenceFromBuffer(buffer, filename, mimeType, sizeRules) ==
    LET resolvedName == IF FalsyString(filename) THEN "input-reference.bin"
                        ELSE filename
    IN  IF buffer = NoBuffer THEN Built(Returned(NoReference), <<>>)
        ELSE buildInputReference(buffer, resolvedName, mimeType, sizeRules)

\* the paths a caller gives
FilePaths == { "", "./guide.png", "/tmp/GUIDE.PNG", "media/clip.mp4", "anim.gif" }

\* path.basename(path.resolve(filePath))
basename(filePath) ==
    CASE filePath = "./guide.png" -> "guide.png"
      [] filePath = "/tmp/GUIDE.PNG" -> "GUIDE.PNG"
      [] filePath = "media/clip.mp4" -> "clip.mp4"
      [] OTHER -> filePath

\* fs.readFile of a path whose content on disk is data (NoBuffer: no such file)
readFile(filePath, data) ==
    IF data = NoBuffer
    THEN Thrown([message |-> "ENOENT: no such file or directory"])
    ELSE Returned(data)

createInputReferenceFromPath(filePath, data, sizeRules) ==
    LET read == readFile(filePath, data) IN
    IF FalsyString(filePath) THEN Built(Returned(NoReference), <<>>)
    ELSE IF read.threw THEN Built(read, <<>>)
    ELSE buildInputReference(read.value, basename(filePath), Undefined, sizeRules)

----------------------------------------------------------------------------
(* Video client: create *)

\* a || b for size strings
OrElse(a, b) == IF Falsy(a) THEN b ELSE a

\* the options a caller passes: signal and headers are forwarded, any other
\* key is not
Options ==
    { [signal |-> Undefined, headers |-> Undefined, timeout |-> Undefined],
      [signal |-> "AbortSignal", headers |-> Undefined, timeout |-> "30s"] }

\* the request options; undefined is the record without signal and headers
buildOptions(options) ==
    [signal |-> options.signal, headers |-> options.headers]

Payload(prompt, model, size, input_reference_path, input_reference) ==
    [ prompt |-> prompt, model |-> model, size |-> size,
      input_reference_path |-> input_reference_path,
      input_reference |-> input_reference ]

\* a payload that is no object
NoPayload == Payload(Undefined, Undefined, UndefinedSize, Undefined, NoReference)

\* lines 84-91: the reference object the size is taken from
referenceMetaOf(body, data, sizeRules) ==
    IF ~FalsyString(body.input_reference_path)
    THEN createInputReferenceFromPath(body.input_reference_path, data, sizeRules)
    ELSE IF body.input_reference.kind = "meta"
    THEN Built(Returned(body.input_reference), <<>>)
    ELSE Built(Returned(NoReference), <<>>)

\* bodySize with the caller's size ahead of the reference's
bodySizeExplicitFirst(referenceMeta, size, sizeRules) ==
    IF ~Falsy(size)
    THEN OrElse(coerceSizeToSupported(size, sizeRules),
                OrElse(FirstLabel(sizeRules), DEFAULT_VIDEO_SIZE))
    ELSE IF ~Falsy(referenceMeta.sizeLabel)
    THEN referenceMeta.sizeLabel
    ELSE OrElse(FirstLabel(sizeRules), DEFAULT_VIDEO_SIZE)

\* lines 93-99: the size of the request body
bodySize(referenceMeta, size, sizeRules) ==
    IF ~Falsy(referenceMeta.sizeLabel)
    THEN referenceMeta.sizeLabel
    ELSE IF ~Falsy(size)
    THEN OrElse(coerceSizeToSupported(size, sizeRules),
                OrElse(FirstLabel(sizeRules), DEFAULT_VIDEO_SIZE))
    ELSE OrElse(FirstLabel(sizeRules), DEFAULT_VIDEO_SIZE)

\* the body sent to videos.create: the copy of the payload without
\* input_reference_path, with the file of the reference and the size
requestBody(payload, referenceMeta, sizeRules) ==
    [ prompt |-> payload.prompt,
      model  |-> payload.model,
      size   |-> bodySize(referenceMeta, payload.size, sizeRules),
      input_reference |->
          IF referenceMeta.kind = "meta" THEN referenceMeta.file
          ELSE payload.input_reference.file ]

VendorCall(method, body, options) ==
    [method |-> method, body |-> body, options |-> options]

\* how the vendor API answers videos.create
VendorOutcomes ==
    { Returned([id |-> "video_1", status |-> "queued"]),
      Thrown([name |-> "APIError", status |-> 400,
              message |-> "400 Invalid request"]),
      Thrown([name |-> "APIUserAbortError", message |-> "Request was aborted."]) }

\* createVideo(payload, options) when the file at input_reference_path holds
\* data and the vendor answers vendorOutcome; calls are the vendor calls made
\* lines 93-101: the request made once the reference is there
sendCreate(payload, options, referenceMeta, sizeRules, vendorOutcome) ==
    IF referenceMeta.outcome.threw
    THEN [ outcome |-> referenceMeta.outcome, calls |-> <<>> ]
    ELSE [ outcome |-> vendorOutcome,
           calls |-> << VendorCall("create",
                                   requestBody(payload, referenceMeta.outcome.value,
                                               sizeRules),
                                   buildOptions(options)) >> ]

createVideo(payload, options, data, vendorOutcome) ==
    LET model     == IF FalsyString(payload.model) THEN "sora-2" ELSE payload.model
        sizeRules == getSizeRules(model)
    IN  IF payload = NoPayload
        THEN [ outcome |-> Thrown([name |-> "TypeError",
                                   message |-> "createVideo expects a payload object."]),
               calls |-> <<>> ]
        ELSE sendCreate(payload, options, referenceMetaOf(payload, data, sizeRules),
                        sizeRules, vendorOutcome)

\* body naming the caller's object instead of a copy of it
bodyAliasingPayload(payload) == [object |-> "payload", properties |-> payload]

\* line 79: body is a new object with the payload's own properties
bodyOf(payload) == [object |-> "body", properties |-> payload]

\* lines 84-99: the properties of body after the writes to input_reference,
\* input_reference_path and size; a file assigned to input_reference is an
\* uploadable passed as it is
writtenBody(payload, referenceMeta, sizeRules) ==
    Payload(payload.prompt, payload.model,
            bodySize(referenceMeta, payload.size, sizeRules),
            IF FalsyString(payload.input_reference_path)
            THEN payload.input_reference_path ELSE Undefined,
            IF referenceMeta.kind = "meta"
            THEN Reference("file", referenceMeta.file, Undefined, UndefinedSize)
            ELSE payload.input_reference)

\* the caller's object once createVideo has settled: the writes of lines
\* 84-99 reach it only when body is that object, and none is made when the
\* reference could not be built
payloadAfterWrites(payload, body, referenceMeta, sizeRules) ==
    IF referenceMeta.outcome.threw \/ body.object # "payload"
    THEN payload
    ELSE writtenBody(payload, referenceMeta.outcome.value, sizeRules)

payloadAfterCreateVideo(payload, data) ==
    LET model     == IF FalsyString(payload.model) THEN "sora-2" ELSE payload.model
        sizeRules == getSizeRules(model)
    IN  IF payload = NoPayload THEN payload
        ELSE payloadAfterWrites(payload, bodyOf(payload),
                                referenceMetaOf(payload, data, sizeRules), sizeRules)

\* reference objects built before the call, with the rule set of either model
PrebuiltReferences ==
    { createInputReferenceFromBuffer(buffer, "guide.png", Undefined,
                                     sizeRules).outcome.value :
        buffer \in { Image(1792, 1024), Image(720, 1280), NotAnImage },
        sizeRules \in { MODEL_SIZE_RULES[model] : model \in DOMAIN MODEL_SIZE_RULES } }

\* an uploadable passed as input_reference as it is
RawUpload ==
    Reference("file", toFile(Image(1000, 1000), "raw.png", "image/png"),
              Undefined, UndefinedSize)

ModelNames == { Undefined, "sora-2", "sora-2-pro", "sora-3" }

CreateSizes ==
    { UndefinedSize, <<>>, L1280x720, L1024x1792,
      <<"1", "2", "8", "0", " ", "X", " ", "7", "2", "0">>,
      <<"2", "0", "0", "0", "x", "1", "0", "0", "0">>,
      <<"g", "a", "r", "b", "a", "g", "e">> }

Payloads ==
    { Payload("a prompt", model, size, filePath, reference) :
        model \in ModelNames, size \in CreateSizes,
        filePath \in { Undefined, "./guide.png", "media/clip.mp4" },
        reference \in PrebuiltReferences \cup { NoReference, RawUpload } }

\* what the file at input_reference_path holds
DiskContents ==
    { NoBuffer, NotAnImage, Image(2000, 1000), Image(1280, 720),
      Truncated(2000, 1000) }

----------------------------------------------------------------------------
(* Video client: list, retrieve, delete *)

\* the query of listVideos
Queries == { [limit |-> Undefined], [limit |-> "10"] }

\* the video ids a caller passes; undefined and '' are falsy
VideoIds == { Undefined, "", "video_1" }

\* the result of a client operation: what it returned or threw, the vendor
\* calls and the fs calls it made
Done(outcome, calls, files) == [outcome |-> outcome, calls |-> calls, files |-> files]

\* videos.list is called with or without the request options; without them
\* the vendor call has no signal and no headers, which is buildOptions' record
listVideos(query, options, vendorOutcome) ==
    Done(vendorOutcome, << VendorCall("list", query, buildOptions(options)) >>, <<>>)

\* getVideo that calls videos.retrieve again when the first call failed
getVideoRetrying(videoId, options, vendorOutcome) ==
    LET call == VendorCall("retrieve", [id |-> videoId], buildOptions(options)) IN
    IF FalsyString(videoId)
    THEN Done(Thrown([name |-> "TypeError",
                      message |-> "getVideo requires a videoId."]), <<>>, <<>>)
    ELSE IF vendorOutcome.threw
    THEN Done(vendorOutcome, << call, call >>, <<>>)
    ELSE Done(vendorOutcome, << call >>, <<>>)

getVideo(videoId, options, vendorOutcome) ==
    IF FalsyString(videoId)
    THEN Done(Thrown([name |-> "TypeError",
                      message |-> "getVideo requires a videoId."]), <<>>, <<>>)
    ELSE Done(vendorOutcome,
              << VendorCall("retrieve", [id |-> videoId], buildOptions(options)) >>,
              <<>>)

deleteVideo(videoId, options, vendorOutcome) ==
    IF FalsyString(videoId)
    THEN Done(Thrown([name |-> "TypeError",
                      message |-> "deleteVideo requires a videoId."]), <<>>, <<>>)
    ELSE Done(vendorOutcome,
              << VendorCall("delete", [id |-> videoId], buildOptions(options)) >>,
              <<>>)

----------------------------------------------------------------------------
(* Video client: download *)

\* a value the download yields or wraps: its JavaScript kind and its bytes;
\* the bytes of a string are its characters
Datum(kind, bytes) == [kind |-> kind, bytes |-> bytes]

\* the value undefined where a datum is expected
NoDatum == Datum("undefined", "")

\* what videos.downloadContent resolves to: a value with, for an object, its
\* data property
Resource(kind, bytes, data) == [kind |-> kind, bytes |-> bytes, data |-> data]

\* the Buffer a download is normalised to
VideoBuffer(bytes) == Datum("Buffer", bytes)

\* the base64 text of the bytes "video"
Base64OfVideo == "dmlkZW8="

\* Buffer.from(text, 'base64'): characters outside the base64 alphabet are
\* skipped, so text without any base64 character decodes to no bytes
base64Decode(text) ==
    CASE text = Base64OfVideo -> "video"
      [] text = "%%%" -> ""
      [] OTHER -> text

\* the kinds of values that have an arrayBuffer method
HasArrayBuffer(kind) == kind \in {"Response", "BrokenResponse", "Blob"}

\* await value.arrayBuffer(): rejects when the body cannot be read to its end
arrayBufferOf(value) ==
    IF value.kind = "BrokenResponse"
    THEN Thrown([name |-> "TypeError", message |-> "terminated"])
    ELSE Returned(VideoBuffer(value.bytes))

\* !value
FalsyKind(kind) == kind \in {"undefined", "null", "emptyString"}

Resources ==
    { Resource("undefined", "", NoDatum),
      Resource("null", "", NoDatum),
      Resource("emptyString", "", NoDatum),
      Resource("Buffer", "video", NoDatum),
      Resource("Uint8Array", "video", NoDatum),
      Resource("Response", "video", NoDatum),
      Resource("BrokenResponse", "video", NoDatum),
      Resource("ReadableStream", "video", NoDatum),
      Resource("string", Base64OfVideo, NoDatum),
      Resource("object", "", NoDatum),
      Resource("object", "", Datum("Buffer", "video")),
      Resource("object", "", Datum("Uint8Array", "video")),
      Resource("object", "", Datum("string", Base64OfVideo)),
      Resource("object", "", Datum("string", "%%%")),
      Resource("object", "", Datum("emptyString", "")),
      Resource("object", "", Datum("Blob", "video")),
      Resource("object", "", Datum("number", "42")) }

UnsupportedResponse ==
    Thrown([name |-> "Error",
            message |-> "Unsupported download response from OpenAI client."])

\* resourceToBuffer with Buffer.from(data) for a string
resourceToBufferUndecoded(resource) ==
    IF FalsyKind(resource.kind)
    THEN Thrown([name |-> "Error",
                 message |-> "No data returned from OpenAI when downloading video."])
    ELSE IF resource.kind \in {"Buffer", "Uint8Array"}
    THEN Returned(VideoBuffer(resource.bytes))
    ELSE IF HasArrayBuffer(resource.kind) THEN arrayBufferOf(resource)
    ELSE IF resource.kind \in {"string", "ReadableStream"} \/ FalsyKind(resource.data.kind)
    THEN UnsupportedResponse
    ELSE IF resource.data.kind \in {"Buffer", "Uint8Array"}
    THEN Returned(VideoBuffer(resource.data.bytes))
    ELSE IF resource.data.kind = "string"
    THEN Returned(VideoBuffer(resource.data.bytes))
    ELSE IF HasArrayBuffer(resource.data.kind) THEN arrayBufferOf(resource.data)
    ELSE UnsupportedResponse

\* a string and a stream have neither an arrayBuffer method nor a data
\* property
resourceToBuffer(resource) ==
    IF FalsyKind(resource.kind)
    THEN Thrown([name |-> "Error",
                 message |-> "No data returned from OpenAI when downloading video."])
    ELSE IF resource.kind \in {"Buffer", "Uint8Array"}
    THEN Returned(VideoBuffer(resource.bytes))
    ELSE IF HasArrayBuffer(resource.kind) THEN arrayBufferOf(resource)
    ELSE IF resource.kind \in {"string", "ReadableStream"} \/ FalsyKind(resource.data.kind)
    THEN UnsupportedResponse
    ELSE IF resource.data.kind \in {"Buffer", "Uint8Array"}
    THEN Returned(VideoBuffer(resource.data.bytes))
    ELSE IF resource.data.kind = "string"
    THEN Returned(VideoBuffer(base64Decode(resource.data.bytes)))
    ELSE IF HasArrayBuffer(resource.data.kind) THEN arrayBufferOf(resource.data)
    ELSE UnsupportedResponse

\* sanitizeVideoId that lets every id pass
sanitizeVideoIdUnchecked(videoId) == Returned([id |-> videoId])

sanitizeVideoId(videoId) ==
    IF FalsyString(videoId)
    THEN Thrown([name |-> "TypeError", message |-> "A videoId is required."])
    ELSE Returned([id |-> videoId])

\* how the vendor API answers videos.downloadContent
DownloadOutcomes ==
    { Returned(resource) : resource \in Resources }
    \cup { outcome \in VendorOutcomes : outcome.threw }

fetchVideoContent(videoId, options, vendorOutcome) ==
    LET id == sanitizeVideoId(videoId) IN
    IF id.threw THEN Done(id, <<>>, <<>>)
    ELSE Done(vendorOutcome,
              << VendorCall("downloadContent", id.value, buildOptions(options)) >>,
              <<>>)

downloadVideoBuffer(videoId, options, vendorOutcome) ==
    LET response == fetchVideoContent(videoId, options, vendorOutcome) IN
    IF response.outcome.threw THEN response
    ELSE Done(resourceToBuffer(response.outcome.value), response.calls, <<>>)

\* the destinations a caller passes
Destinations == { Undefined, "", "out/video_1.mp4", "/tmp/video_1.mp4" }

\* path.resolve with the working directory /work
resolve(destination) ==
    CASE destination = "out/video_1.mp4" -> "/work/out/video_1.mp4"
      [] OTHER -> destination

\* path.dirname
dirname(absolutePath) ==
    CASE absolutePath = "/work/out/video_1.mp4" -> "/work/out"
      [] absolutePath = "/tmp/video_1.mp4" -> "/tmp"
      [] OTHER -> absolutePath

FsCall(call, target, data) == [call |-> call, path |-> target, data |-> data]

\* downloadVideo when the disk accepts the write (writable) or refuses the
\* directory
downloadVideo(videoId, destination, options, vendorOutcome, writable) ==
    LET absoluteDestination == resolve(destination)
        buffer == downloadVideoBuffer(videoId, options, vendorOutcome)
        mkdir  == FsCall("mkdir", dirname(absoluteDestination), NoDatum)
    IN  IF FalsyString(videoId)
        THEN Done(Thrown([name |-> "TypeError",
                          message |-> "downloadVideo requires a videoId."]),
                  <<>>, <<>>)
        ELSE IF FalsyString(destination)
        THEN Done(Thrown([name |-> "TypeError",
                          message |-> "downloadVideo requires a destination file path."]),
                  <<>>, <<>>)
        ELSE IF buffer.outcome.threw THEN buffer
        ELSE IF ~writable
        THEN Done(Thrown([name |-> "Error", message |-> "EACCES: permission denied"]),
                  buffer.calls, << mkdir >>)
        ELSE Done(Returned([path |-> absoluteDestination]), buffer.calls,
                  << mkdir,
                     FsCall("writeFile", absoluteDestination, buffer.outcome.value) >>)

downloadVideoContent(videoId, options, vendorOutcome) ==
    fetchVideoContent(videoId, options, vendorOutcome)

\* the arguments and the result while no call has settled, and the body of
\* a response without content
Nothing == [nothing |-> TRUE]

----------------------------------------------------------------------------
(* Command-line tool: create *)

\* the options of a call made without options
NoOptions == [signal |-> Undefined, headers |-> Undefined, timeout |-> Undefined]

EXAMPLE_PROMPT ==
    "A cinematic slow-motion shot of glowing jellyfish floating through a neon coral reef."

\* String.prototype.trim on prompts, model names and paths
trimText(text) ==
    CASE text = " " -> ""
      [] text = " a prompt " -> "a prompt"
      [] text = " ./guide.png " -> "./guide.png"
      [] OTHER -> text

\* const DEFAULT_MODEL = process.env.SORA_DEFAULT_MODEL || 'sora-2'
DEFAULT_MODEL ==
    IF FalsyString(SORA_DEFAULT_MODEL) THEN "sora-2" ELSE SORA_DEFAULT_MODEL

\* const DEFAULT_SIZE = process.env.SORA_DEFAULT_SIZE || DEFAULT_VIDEO_SIZE
DEFAULT_SIZE == OrElse(SORA_DEFAULT_SIZE, DEFAULT_VIDEO_SIZE)

\* the prompt tokens of the command line joined by spaces; undefined when
\* there is no token
CliPrompts == { Undefined, " ", " a prompt " }

\* the value of --file, or of SORA_INPUT_REFERENCE when there is no --file
CliReferencePaths == { Undefined, " ./guide.png ", " " }

\* handleCreate(args) when the file named holds data and the vendor answers
\* vendorOutcome
handleCreate(promptTokens, inputReferencePath, data, vendorOutcome) ==
    LET joined == IF promptTokens = Undefined THEN EXAMPLE_PROMPT ELSE promptTokens
        prompt == IF trimText(joined) = "" THEN EXAMPLE_PROMPT ELSE trimText(joined)
        referencePath == IF FalsyString(inputReferencePath) THEN Undefined
                         ELSE trimText(inputReferencePath)
        payload == Payload(prompt, DEFAULT_MODEL, DEFAULT_SIZE,
                           IF FalsyString(referencePath) THEN Undefined
                           ELSE referencePath,
                           NoReference)
    IN  createVideo(payload, NoOptions, data, vendorOutcome)

----------------------------------------------------------------------------
(* HTTP server *)

\* String.prototype.trim on a size string
trimSize(size) ==
    LET kept == { i \in 1..Len(size) : ~IsWhitespace(size[i]) } IN
    IF kept = {} THEN <<>>
    ELSE SubSeq(size, CHOOSE i \in kept : \A j \in kept : i <= j,
                      CHOOSE i \in kept : \A j \in kept : j <= i)

\* the file multer hands over as req.file
Upload(buffer, originalname, mimetype) ==
    [buffer |-> buffer, originalname |-> originalname, mimetype |-> mimetype]

\* a request without the input_reference part
NoUpload == Upload(NoBuffer, Undefined, Undefined)

Uploads ==
    { Upload(Image(2000, 1000), "guide.png", "image/png"),
      Upload(Image(2000, 1000), "guide.png", "application/octet-stream"),
      Upload(Truncated(2000, 1000), "guide.png", "image/png"),
      Upload(Image(2000, 1000), "anim.gif", "image/gif"),
      Upload(Image(2000, 1000), "README", "application/octet-stream") }

\* the body of POST /api/videos; malformed: the JSON text does not parse
Request(malformed, prompt, model, size, file, input_reference_path) ==
    [ malformed |-> malformed, prompt |-> prompt, model |-> model, size |-> size,
      file |-> file, input_reference_path |-> input_reference_path ]

MalformedRequest ==
    Request(TRUE, Undefined, Undefined, UndefinedSize, NoUpload, Undefined)

RequestSizes ==
    { UndefinedSize, <<>>, L1024x1792,
      <<" ", "1", "2", "8", "0", "x", "7", "2", "0", " ">>,
      <<"g", "a", "r", "b", "a", "g", "e">> }

Requests ==
    { Request(FALSE, prompt, model, size, file, filePath) :
        prompt \in { Undefined, " ", " a prompt " },
        model \in { Undefined, "sora-2-pro", "sora-3" },
        size \in RequestSizes,
        file \in Uploads \cup { NoUpload },
        filePath \in { Undefined, "./guide.png" } }
    \cup { MalformedRequest }

\* res.status(status).json(body), res.json(body), res.send(body)
Response(status, body) == [status |-> status, body |-> body]

\* the response of a route and the vendor calls made on the way
Served(response, calls) == [outcome |-> response, calls |-> calls, files |-> <<>>]

\* error instanceof APIError; APIUserAbortError is a subclass of APIError
IsAPIError(error) ==
    "name" \in DOMAIN error /\ error.name \in {"APIError", "APIUserAbortError"}

\* the error-handling middleware answering 500 to every API error
errorMiddlewareWithoutStatus(error) ==
    IF IsAPIError(error)
    THEN Response(500, [error |-> error.message, details |-> "null"])
    ELSE IF "name" \in DOMAIN error /\ error.name = "SyntaxError"
    THEN Response(400, [error |-> "Invalid JSON payload."])
    ELSE Response(500, [error |-> IF error.message = "" THEN "Unknown server error."
                                  ELSE error.message])

\* the error-handling middleware; the errors of the model carry neither
\* error nor details, so that details is null
errorMiddleware(error) ==
    IF IsAPIError(error)
    THEN Response(IF "status" \in DOMAIN error THEN error.status ELSE 500,
                  [error |-> error.message, details |-> "null"])
    ELSE IF "name" \in DOMAIN error /\ error.name = "SyntaxError"
    THEN Response(400, [error |-> "Invalid JSON payload."])
    ELSE Response(500, [error |-> IF error.message = "" THEN "Unknown server error."
                                  ELSE error.message])

\* the outcome of a client operation as the response of its route
Respond(call, status) ==
    IF call.outcome.threw
    THEN Served(errorMiddleware(call.outcome.error), call.calls)
    ELSE Served(Response(status, call.outcome.value), call.calls)

normalizeMimeType(value) ==
    LET trimmed == stringToLowerCase(trim(value)) IN
    IF FalsyString(value) THEN Undefined
    ELSE IF trimmed = "" \/ trimmed = "application/octet-stream" THEN Undefined
    ELSE trimmed

\* lines 99-115: the request with the uploaded file, once the reference
\* built from it is there
postWithReference(promptText, model, size, filePath, built, data, vendorOutcome) ==
    IF built.outcome.threw
    THEN Served(Response(400, [error |-> built.outcome.error.message]), <<>>)
    ELSE Respond(createVideo(Payload(promptText, model,
                                     IF ~Falsy(built.outcome.value.sizeLabel)
                                     THEN built.outcome.value.sizeLabel ELSE size,
                                     filePath, built.outcome.value),
                             NoOptions, data, vendorOutcome), 201)

\* POST /api/videos; data is what the file at the request's
\* input_reference_path holds
postVideos(request, data, vendorOutcome) ==
    LET promptText == IF request.prompt = Undefined THEN ""
                      ELSE trimText(request.prompt)
        sizeValue  == IF request.size = UndefinedSize THEN request.size
                      ELSE trimSize(request.size)
        modelValue == IF request.model = Undefined THEN request.model
                      ELSE trimText(request.model)
        model      == IF FalsyString(modelValue) THEN DEFAULT_MODEL ELSE modelValue
        sizeRules  == getSizeRules(model)
        size       == OrElse(coerceSizeToSupported(
                                 OrElse(sizeValue,
                                        OrElse(SORA_DEFAULT_SIZE, DEFAULT_VIDEO_SIZE)),
                                 sizeRules),
                             OrElse(FirstLabel(sizeRules), DEFAULT_VIDEO_SIZE))
        hasFile    == request.file.buffer # NoBuffer
        filename   == IF FalsyString(request.file.originalname) THEN "input_reference"
                      ELSE request.file.originalname
        providedType == normalizeMimeType(request.file.mimetype)
    IN  IF request.malformed
        THEN Served(errorMiddleware([name |-> "SyntaxError",
                                     message |-> "Unexpected token"]), <<>>)
        ELSE IF promptText = ""
        THEN Served(Response(400, [error |-> "Prompt is required."]), <<>>)
        ELSE IF ~hasFile
        THEN Respond(createVideo(Payload(promptText, model, size,
                                         request.input_reference_path, NoReference),
                                 NoOptions, data, vendorOutcome), 201)
        ELSE IF /\ providedType # Undefined
                /\ providedType \notin Range(SUPPORTED_INPUT_REFERENCE_MIME_TYPES)
        THEN Served(Response(400, [error |-> "Unsupported input_reference type"]), <<>>)
        ELSE postWithReference(promptText, model, size, request.input_reference_path,
                               createInputReferenceFromBuffer(request.file.buffer,
                                                              filename, providedType,
                                                              sizeRules),
                               data, vendorOutcome)

\* GET /api/videos
getVideos(query, vendorOutcome) ==
    Respond(listVideos(query, NoOptions, vendorOutcome), 200)

\* GET /api/videos/:id
getVideoById(id, vendorOutcome) ==
    Respond(getVideo(id, NoOptions, vendorOutcome), 200)

\* DELETE /api/videos/:id, answered without a body
deleteVideoById(id, vendorOutcome) ==
    LET call == deleteVideo(id, NoOptions, vendorOutcome) IN
    IF call.outcome.threw THEN Respond(call, 204)
    ELSE Served(Response(204, Nothing), call.calls)

\* GET /api/videos/:id/download: a response with a body is piped, any other
\* is read with arrayBuffer(); a body that fails before its first chunk is
\* handed to the error middleware
downloadVideoById(id, vendorOutcome) ==
    LET call     == downloadVideoContent(id, NoOptions, vendorOutcome)
        response == call.outcome.value
    IN  IF call.outcome.threw THEN Respond(call, 200)
        ELSE IF response.kind = "Response"
        THEN Served(Response(200, VideoBuffer(response.bytes)), call.calls)
        ELSE IF response.kind = "BrokenResponse"
        THEN Served(errorMiddleware(arrayBufferOf(response).error), call.calls)
        ELSE IF response.kind = "Blob"
        THEN Served(Response(200, arrayBufferOf(response).value), call.calls)
        ELSE Served(errorMiddleware([name |-> "TypeError",
                                     message |-> "response.arrayBuffer is not a function"]),
                    call.calls)

----------------------------------------------------------------------------
(* Browser page: public/main.js *)

\* the most fetch calls in flight at once
MaxRequests == 2

\* the most reset callbacks waiting at once
MaxTimeouts == 2

\* the label #refresh-btn has in the page's markup
OriginalLabel == "Refresh"

\* the three labels refreshVideos writes; the ellipsis, the check mark and
\* the cross of the source are written out in ASCII
Refreshing == "Refreshing..."

Updated == "Updated (check)"

Failed == "Failed (cross)"

Button(disabled, textContent) == [disabled |-> disabled, textContent |-> textContent]

\* a fetch in flight: where it goes, the handler whose refreshVideos or
\* apiRequest made it, and for refreshVideos the originalText of line 251
Fetch(to, caller, originalText) ==
    [to |-> to, caller |-> caller, originalText |-> originalText]

\* the sequence without its i-th element
Without(seq, i) == SubSeq(seq, 1, i - 1) \o SubSeq(seq, i + 1, Len(seq))

Event(handler, refresh) == [handler |-> handler, refresh |-> refresh]

\* the videos a list response holds
VideoLists == { <<>>, <<"video_1">> }

\* refreshVideos with line 248 taken out
refreshVideosWithoutGuard(caller, pending) ==
    /\ isRefreshing' = TRUE
    /\ refreshBtn' = Button(TRUE, Refreshing)
    /\ requests' = Append(pending, Fetch("list", caller, refreshBtn.textContent))
    /\ event' = Event(caller, "started")
    /\ UNCHANGED autoRefreshTimer

\* lines 247-255, up to the await, called by a handler when pending are the
\* fetches in flight; a call of init that returns at line 248 lets init go
\* on to lines 336-340
refreshVideos(caller, pending) ==
    IF isRefreshing
    THEN /\ requests' = pending
         /\ event' = Event(caller, "skipped")
         /\ autoRefreshTimer' = (autoRefreshTimer \/ caller = "init")
         /\ UNCHANGED <<isRefreshing, refreshBtn>>
    ELSE /\ isRefreshing' = TRUE
         /\ refreshBtn' = Button(TRUE, Refreshing)
         /\ requests' = Append(pending, Fetch("list", caller, refreshBtn.textContent))
         /\ event' = Event(caller, "started")
         /\ UNCHANGED autoRefreshTimer

\* init, lines 327-334: /api/health has answered
HealthResponse ==
    \E i \in 1..Len(requests), ok \in BOOLEAN :
        /\ requests[i].to = "health"
        /\ envIndicator' = IF ok THEN "ready" ELSE "offline"
        /\ refreshVideos("init", Without(requests, i))
        /\ UNCHANGED <<videosTableBody, details, createResult, timeouts>>
        /\ UNCHANGED moduleVars

\* line 324: a click on the button, which a disabled button does not get
ClickRefresh ==
    /\ ~refreshBtn.disabled
    /\ isRefreshing \/ Len(requests) < MaxRequests
    /\ refreshVideos("click", requests)
    /\ UNCHANGED <<envIndicator, videosTableBody, details, createResult, timeouts>>
    /\ UNCHANGED moduleVars

\* lines 337-339: the interval of 20 seconds has elapsed; a reset callback
\* set before the interval runs 1.5 seconds later, ahead of the first tick
AutoRefresh ==
    /\ autoRefreshTimer
    /\ \A i \in 1..Len(timeouts) : ~timeouts[i].beforeInterval
    /\ isRefreshing \/ Len(requests) < MaxRequests
    /\ refreshVideos("interval", requests)
    /\ UNCHANGED <<envIndicator, videosTableBody, details, createResult, timeouts>>
    /\ UNCHANGED moduleVars

\* lines 274-316: the form is submitted; a blank prompt is answered by an alert
SubmitCreate ==
    \E promptValue \in { "", "a prompt" } :
        /\ promptValue = "" \/ Len(requests) < MaxRequests
        /\ requests' = IF promptValue = "" THEN requests
                       ELSE Append(requests, Fetch("create", "create", ""))
        /\ event' = Event("submit", "none")
        /\ UNCHANGED <<isRefreshing, autoRefreshTimer, refreshBtn, envIndicator,
                       videosTableBody, details, createResult, timeouts>>
        /\ UNCHANGED moduleVars

\* lines 317-321: POST /api/videos has answered
CreateResponse ==
    \E i \in 1..Len(requests), ok \in BOOLEAN :
        /\ requests[i].to = "create"
        /\ createResult' = IF ok THEN "result" ELSE "error"
        /\ IF ok THEN refreshVideos("create", Without(requests, i))
           ELSE /\ requests' = Without(requests, i)
                /\ event' = Event("create", "none")
                /\ UNCHANGED <<isRefreshing, autoRefreshTimer, refreshBtn>>
        /\ UNCHANGED <<envIndicator, videosTableBody, details, timeouts>>
        /\ UNCHANGED moduleVars

\* lines 212-214: a click on Inspect in a row
ClickInspect ==
    /\ Len(videosTableBody) > 0
    /\ Len(requests) < MaxRequests
    /\ requests' = Append(requests, Fetch("inspect", "inspect", ""))
    /\ event' = Event("inspect", "none")
    /\ UNCHANGED <<isRefreshing, autoRefreshTimer, refreshBtn, envIndicator,
                   videosTableBody, details, createResult, timeouts>>
    /\ UNCHANGED moduleVars

\* lines 215-218: GET /api/videos/:id has answered
InspectResponse ==
    \E i \in 1..Len(requests), ok \in BOOLEAN :
        /\ requests[i].to = "inspect"
        /\ details' = IF ok THEN "video" ELSE "error"
        /\ requests' = Without(requests, i)
        /\ event' = Event("inspect", "none")
        /\ UNCHANGED <<isRefreshing, autoRefreshTimer, refreshBtn, envIndicator,
                       videosTableBody, createResult, timeouts>>
        /\ UNCHANGED moduleVars

\* lines 231-234: a click on Delete in a row, confirmed or not
ClickDelete ==
    \E confirmed \in BOOLEAN :
        /\ Len(videosTableBody) > 0
        /\ ~confirmed \/ Len(requests) < MaxRequests
        /\ requests' = IF confirmed
                       THEN Append(requests, Fetch("delete", "delete", ""))
                       ELSE requests
        /\ event' = Event("delete", "none")
        /\ UNCHANGED <<isRefreshing, autoRefreshTimer, refreshBtn, envIndicator,
                       videosTableBody, details, createResult, timeouts>>
        /\ UNCHANGED moduleVars

\* lines 234-238: DELETE /api/videos/:id has answered
DeleteResponse ==
    \E i \in 1..Len(requests), ok \in BOOLEAN :
        /\ requests[i].to = "delete"
        /\ IF ok THEN refreshVideos("delete", Without(requests, i))
           ELSE /\ requests' = Without(requests, i)
                /\ event' = Event("delete", "none")
                /\ UNCHANGED <<isRefreshing, autoRefreshTimer, refreshBtn>>
        /\ UNCHANGED <<envIndicator, videosTableBody, details, createResult, timeouts>>
        /\ UNCHANGED moduleVars

\* lines 256-271: GET /api/videos has answered refreshVideos; when init
\* awaited it, init goes on to lines 336-340
ListResponse ==
    /\ Len(timeouts) < MaxTimeouts
    /\ \E i \in 1..Len(requests), ok \in BOOLEAN, videos \in VideoLists :
        /\ requests[i].to = "list"
        /\ videosTableBody' = IF ok THEN videos ELSE <<>>
        /\ details' = IF ok THEN details ELSE "error"
        /\ refreshBtn' = Button(refreshBtn.disabled, IF ok THEN Updated ELSE Failed)
        /\ timeouts' = Append(timeouts, [originalText |-> requests[i].originalText,
                                         beforeInterval |-> ~autoRefreshTimer])
        /\ isRefreshing' = FALSE
        /\ autoRefreshTimer' = (autoRefreshTimer \/ requests[i].caller = "init")
        /\ requests' = Without(requests, i)
        /\ event' = Event("list", "none")
        /\ UNCHANGED <<envIndicator, createResult>>
        /\ UNCHANGED moduleVars

\* lines 266-269: the oldest reset callback runs after its 1.5 seconds
ResetTimeout ==
    /\ Len(timeouts) > 0
    /\ refreshBtn' = Button(FALSE, Head(timeouts).originalText)
    /\ timeouts' = Tail(timeouts)
    /\ event' = Event("timeout", "none")
    /\ UNCHANGED <<isRefreshing, autoRefreshTimer, envIndicator, videosTableBody,
                   details, createResult, requests>>
    /\ UNCHANGED moduleVars

----------------------------------------------------------------------------
(* Calls *)

Settle(operation, arguments, result, calls) ==
    /\ pc' = "done"
    /\ op' = operation
    /\ input' = arguments
    /\ output' = result
    /\ vendorCalls' = calls
    /\ fsCalls' = <<>>
    /\ callerPayload' = NoPayload
    /\ UNCHANGED <<SORA_DEFAULT_SIZE, SORA_DEFAULT_MODEL>>
    /\ UNCHANGED pageVars

\* a call that made vendor calls
SettleCall(operation, arguments, call) ==
    Settle(operation, arguments, call.outcome, call.calls)

\* a call that was given an object of the caller, and the object after it
SettleWithPayload(operation, arguments, call, payload) ==
    /\ pc' = "done"
    /\ op' = operation
    /\ input' = arguments
    /\ output' = call.outcome
    /\ vendorCalls' = call.calls
    /\ fsCalls' = <<>>
    /\ callerPayload' = payload
    /\ UNCHANGED <<SORA_DEFAULT_SIZE, SORA_DEFAULT_MODEL>>
    /\ UNCHANGED pageVars

\* a call that also wrote to the disk
SettleWithFiles(operation, arguments, result) ==
    /\ pc' = "done"
    /\ op' = operation
    /\ input' = arguments
    /\ output' = result.outcome
    /\ vendorCalls' = result.calls
    /\ fsCalls' = result.files
    /\ callerPayload' = NoPayload
    /\ UNCHANGED <<SORA_DEFAULT_SIZE, SORA_DEFAULT_MODEL>>
    /\ UNCHANGED pageVars

\* the values of the two environment variables the processes start with
Environments ==
    { [SORA_DEFAULT_SIZE |-> UndefinedSize, SORA_DEFAULT_MODEL |-> Undefined],
      [SORA_DEFAULT_SIZE |-> L1920x1080, SORA_DEFAULT_MODEL |-> Undefined],
      [SORA_DEFAULT_SIZE |-> L720x1280, SORA_DEFAULT_MODEL |-> "sora-2-pro"] }

ChooseSize ==
    /\ pc = "idle"
    /\ \E width \in Dims, height \in Dims, sizeRules \in RuleSets :
        Settle("chooseSupportedVideoSize",
               [width |-> width, height |-> height, sizeRules |-> sizeRules],
               [rule |-> chooseSupportedVideoSize(width, height, sizeRules)],
               <<>>)

CoerceSize ==
    /\ pc = "idle"
    /\ \E size \in SizeInputs, sizeRules \in RuleSets :
        Settle("coerceSizeToSupported",
               [size |-> size, sizeRules |-> sizeRules],
               [label |-> coerceSizeToSupported(size, sizeRules)],
               <<>>)

InferMimeType ==
    /\ pc = "idle"
    /\ \E filename \in Filenames, fallbackMimeType \in DeclaredMimeTypes :
        Settle("inferMimeType",
               [filename |-> filename, fallbackMimeType |-> fallbackMimeType],
               [mimeType |-> inferMimeType(filename, fallbackMimeType)],
               <<>>)

\* the types ensureSupportedMimeType is given: what a caller declares and
\* what inferMimeType returns
EnsuredMimeTypes ==
    DeclaredMimeTypes \cup Range(SUPPORTED_INPUT_REFERENCE_MIME_TYPES)

EnsureSupportedMimeType ==
    /\ pc = "idle"
    /\ \E mimeType \in EnsuredMimeTypes, filename \in Filenames :
        Settle("ensureSupportedMimeType",
               [mimeType |-> mimeType, filename |-> filename],
               [resolved |-> ensureSupportedMimeType(mimeType, filename)],
               <<>>)

CreateInputReferenceFromBuffer ==
    /\ pc = "idle"
    /\ \E buffer \in Buffers \cup {NoBuffer}, filename \in Filenames,
          mimeType \in DeclaredMimeTypes, sizeRules \in RuleSets :
        Settle("createInputReferenceFromBuffer",
               [buffer |-> buffer, filename |-> filename, mimeType |-> mimeType,
                sizeRules |-> sizeRules],
               createInputReferenceFromBuffer(buffer, filename, mimeType, sizeRules),
               <<>>)

CreateInputReferenceFromPath ==
    /\ pc = "idle"
    /\ \E filePath \in FilePaths, data \in Buffers \cup {NoBuffer},
          sizeRules \in RuleSets :
        Settle("createInputReferenceFromPath",
               [filePath |-> filePath, data |-> data, sizeRules |-> sizeRules],
               createInputReferenceFromPath(filePath, data, sizeRules),
               <<>>)

CreateVideo ==
    /\ pc = "idle"
    /\ \E payload \in Payloads \cup {NoPayload}, options \in Options,
          data \in DiskContents, vendorOutcome \in VendorOutcomes :
        SettleWithPayload("createVideo",
                          [payload |-> payload, options |-> options, data |-> data,
                           vendorOutcome |-> vendorOutcome],
                          createVideo(payload, options, data, vendorOutcome),
                          payloadAfterCreateVideo(payload, data))

ListVideos ==
    /\ pc = "idle"
    /\ \E query \in Queries, options \in Options, vendorOutcome \in VendorOutcomes :
        SettleWithFiles("listVideos",
                        [query |-> query, options |-> options,
                         vendorOutcome |-> vendorOutcome],
                        listVideos(query, options, vendorOutcome))

GetVideo ==
    /\ pc = "idle"
    /\ \E videoId \in VideoIds, options \in Options, vendorOutcome \in VendorOutcomes :
        SettleWithFiles("getVideo",
                        [videoId |-> videoId, options |-> options,
                         vendorOutcome |-> vendorOutcome],
                        getVideo(videoId, options, vendorOutcome))

DeleteVideo ==
    /\ pc = "idle"
    /\ \E videoId \in VideoIds, options \in Options, vendorOutcome \in VendorOutcomes :
        SettleWithFiles("deleteVideo",
                        [videoId |-> videoId, options |-> options,
                         vendorOutcome |-> vendorOutcome],
                        deleteVideo(videoId, options, vendorOutcome))

DownloadVideoBuffer ==
    /\ pc = "idle"
    /\ \E videoId \in VideoIds, options \in Options, vendorOutcome \in DownloadOutcomes :
        SettleWithFiles("downloadVideoBuffer",
                        [videoId |-> videoId, options |-> options,
                         vendorOutcome |-> vendorOutcome],
                        downloadVideoBuffer(videoId, options, vendorOutcome))

DownloadVideo ==
    /\ pc = "idle"
    /\ \E videoId \in VideoIds, destination \in Destinations, options \in Options,
          vendorOutcome \in DownloadOutcomes, writable \in BOOLEAN :
        SettleWithFiles("downloadVideo",
                        [videoId |-> videoId, destination |-> destination,
                         options |-> options, vendorOutcome |-> vendorOutcome,
                         writable |-> writable],
                        downloadVideo(videoId, destination, options, vendorOutcome,
                                      writable))

DownloadVideoContent ==
    /\ pc = "idle"
    /\ \E videoId \in VideoIds, options \in Options, vendorOutcome \in DownloadOutcomes :
        SettleWithFiles("downloadVideoContent",
                        [videoId |-> videoId, options |-> options,
                         vendorOutcome |-> vendorOutcome],
                        downloadVideoContent(videoId, options, vendorOutcome))

HandleCreate ==
    /\ pc = "idle"
    /\ \E promptTokens \in CliPrompts, inputReferencePath \in CliReferencePaths,
          data \in DiskContents, vendorOutcome \in VendorOutcomes :
        SettleCall("handleCreate",
                   [promptTokens |-> promptTokens,
                    inputReferencePath |-> inputReferencePath, data |-> data,
                    vendorOutcome |-> vendorOutcome],
                   handleCreate(promptTokens, inputReferencePath, data, vendorOutcome))

PostVideos ==
    /\ pc = "idle"
    /\ \E request \in Requests, data \in { NoBuffer, Image(1280, 720) },
          vendorOutcome \in VendorOutcomes :
        SettleWithFiles("POST /api/videos",
                        [request |-> request, data |-> data,
                         vendorOutcome |-> vendorOutcome],
                        postVideos(request, data, vendorOutcome))

GetVideos ==
    /\ pc = "idle"
    /\ \E query \in Queries, vendorOutcome \in VendorOutcomes :
        SettleWithFiles("GET /api/videos",
                        [query |-> query, vendorOutcome |-> vendorOutcome],
                        getVideos(query, vendorOutcome))

GetVideoById ==
    /\ pc = "idle"
    /\ \E id \in VideoIds \ {Undefined, ""}, vendorOutcome \in VendorOutcomes :
        SettleWithFiles("GET /api/videos/:id",
                        [videoId |-> id, vendorOutcome |-> vendorOutcome],
                        getVideoById(id, vendorOutcome))

DeleteVideoById ==
    /\ pc = "idle"
    /\ \E id \in VideoIds \ {Undefined, ""}, vendorOutcome \in VendorOutcomes :
        SettleWithFiles("DELETE /api/videos/:id",
                        [videoId |-> id, vendorOutcome |-> vendorOutcome],
                        deleteVideoById(id, vendorOutcome))

DownloadVideoById ==
    /\ pc = "idle"
    /\ \E id \in VideoIds \ {Undefined, ""}, vendorOutcome \in DownloadOutcomes :
        SettleWithFiles("GET /api/videos/:id/download",
                        [videoId |-> id, vendorOutcome |-> vendorOutcome],
                        downloadVideoById(id, vendorOutcome))

\* the caller has consumed the result; the per-call values are dropped
Return ==
    /\ pc = "done"
    /\ pc' = "idle"
    /\ op' = "none"
    /\ input' = Nothing
    /\ output' = Nothing
    /\ vendorCalls' = <<>>
    /\ fsCalls' = <<>>
    /\ callerPayload' = NoPayload
    /\ UNCHANGED <<SORA_DEFAULT_SIZE, SORA_DEFAULT_MODEL>>
    /\ UNCHANGED pageVars

Init ==
    /\ \E environment \in Environments :
          /\ SORA_DEFAULT_SIZE = environment.SORA_DEFAULT_SIZE
          /\ SORA_DEFAULT_MODEL = environment.SORA_DEFAULT_MODEL
    /\ pc = "idle"
    /\ op = "none"
    /\ input = Nothing
    /\ output = Nothing
    /\ vendorCalls = <<>>
    /\ fsCalls = <<>>
    /\ callerPayload = NoPayload
    /\ isRefreshing = FALSE
    /\ autoRefreshTimer = FALSE
    /\ refreshBtn = Button(FALSE, OriginalLabel)
    /\ envIndicator = ""
    /\ videosTableBody = <<>>
    /\ details = "hidden"
    /\ createResult = "hidden"
    /\ requests = << Fetch("health", "init", "") >>
    /\ timeouts = <<>>
    /\ event = Event("load", "none")

Next ==
    \/ ChooseSize
    \/ CoerceSize
    \/ InferMimeType
    \/ EnsureSupportedMimeType
    \/ CreateInputReferenceFromBuffer
    \/ CreateInputReferenceFromPath
    \/ CreateVideo
    \/ ListVideos
    \/ GetVideo
    \/ DeleteVideo
    \/ DownloadVideoBuffer
    \/ DownloadVideo
    \/ DownloadVideoContent
    \/ HandleCreate
    \/ PostVideos
    \/ GetVideos
    \/ GetVideoById
    \/ DeleteVideoById
    \/ DownloadVideoById
    \/ Return

Spec == Init /\ [][Next]_vars

\* the page: the handlers of public/main.js and the answers to its requests
PageNext ==
    \/ HealthResponse
    \/ ClickRefresh
    \/ AutoRefresh
    \/ SubmitCreate
    \/ CreateResponse
    \/ ClickInspect
    \/ InspectResponse
    \/ ClickDelete
    \/ DeleteResponse
    \/ ListResponse
    \/ ResetTimeout

PageSpec == Init /\ [][PageNext]_vars

----------------------------------------------------------------------------
(* Properties *)

\* the four supported MIME types, as the documentation lists them
SupportedTypes == {"image/jpeg", "image/png", "image/webp", "video/mp4"}

\* the extensions of the fixed extension table
KnownExtensions == {".jpg", ".jpeg", ".png", ".webp", ".mp4"}

\* a call of chooseSupportedVideoSize has settled
ChooseSettled == op = "chooseSupportedVideoSize"

\* a call of coerceSizeToSupported on a string and a non-empty rule set has settled
CoerceSettled ==
    /\ op = "coerceSizeToSupported"
    /\ input.size # UndefinedSize
    /\ Len(input.sizeRules) > 0

\* a call of createVideo has settled after its call of videos.create
CreateSent == op = "createVideo" /\ Len(vendorCalls) > 0

\* a call of one of the two createInputReference functions has settled that
\* went through buildInputReference
BuilderRan ==
    \/ op = "createInputReferenceFromBuffer" /\ input.buffer # NoBuffer
    \/ /\ op = "createInputReferenceFromPath"
       /\ input.filePath # ""
       /\ input.data # NoBuffer

\* the bytes, the file name and the declared type buildInputReference received
BuilderData ==
    IF op = "createInputReferenceFromBuffer" THEN input.buffer ELSE input.data

BuilderFilename ==
    IF op = "createInputReferenceFromBuffer"
    THEN IF input.filename \in {Undefined, ""} THEN "input-reference.bin"
         ELSE input.filename
    ELSE basename(input.filePath)

BuilderDeclared ==
    IF op = "createInputReferenceFromBuffer" THEN input.mimeType ELSE Undefined

\* the MIME type resolved for the reference
BuilderResolved == inferMimeType(BuilderFilename, BuilderDeclared)

\* the call failed with the unsupported-file-type error
UnsupportedTypeFailure ==
    /\ output.outcome.threw
    /\ output.outcome.error.message = "Unsupported input_reference file type"

\* the size string in the normal form of the documentation: lower case, only
\* digits and x, every run of x collapsed to one x
RECURSIVE CollapseXRuns(_)
CollapseXRuns(s) ==
    IF Len(s) < 2 THEN s
    ELSE IF s[1] = "x" /\ s[2] = "x" THEN CollapseXRuns(Tail(s))
    ELSE <<s[1]>> \o CollapseXRuns(Tail(s))

NormalForm(size) ==
    LET lower == [i \in 1..Len(size) |-> IF size[i] = "X" THEN "x" ELSE size[i]]
    IN  CollapseXRuns(SelectSeq(lower, LAMBDA c : c \in Digits \cup {"x"}))

\* a normal form that reads <width>x<height> with both numbers positive
StatesPositiveSize(n) ==
    \E i \in 1..Len(n) :
        /\ n[i] = "x"
        /\ \A k \in (1..Len(n)) \ {i} : n[k] \in Digits
        /\ \E k \in 1..(i - 1) : n[k] # "0"
        /\ \E k \in (i + 1)..Len(n) : n[k] # "0"

(* C1: for width > 0, height > 0 and a non-empty rule set,                 *)
(* chooseSupportedVideoSize returns one rule, a member of that rule set.   *)
C1_ChosenRuleIsMember ==
    ( /\ ChooseSettled
      /\ input.width > 0 /\ input.height > 0
      /\ Len(input.sizeRules) > 0 )
    => /\ output.rule # NoRule
       /\ output.rule \in Range(input.sizeRules)

\* a landscape input with a rule set that has portrait rules only
C1_Witness ==
    /\ ChooseSettled
    /\ input.width > input.height /\ input.height > 0
    /\ input.sizeRules = PortraitOnlyRules
    /\ output.rule = PortraitOnlyRules[1]

\* the sizeLabel of the reference attached to the payload of a createVideo call
C2_ReferenceLabel ==
    LET payload == input.payload
        rules   == getSizeRules(IF payload.model \in {Undefined, ""} THEN "sora-2"
                                ELSE payload.model)
    IN  IF payload.input_reference_path \notin {Undefined, ""}
        THEN createInputReferenceFromPath(payload.input_reference_path,
                                          input.data, rules).outcome.value.sizeLabel
        ELSE payload.input_reference.sizeLabel

(* C2: the size createVideo sends is the sizeLabel of the attached          *)
(* reference when it has one, else the caller's size coerced to the rule   *)
(* set of the model when the payload has a size, else the first label of   *)
(* the rule set of the model.                                              *)
C2_SizePrecedence ==
    CreateSent =>
        LET payload == input.payload
            rules   == getSizeRules(IF payload.model \in {Undefined, ""} THEN "sora-2"
                                    ELSE payload.model)
            sent    == vendorCalls[1].body.size
        IN  IF C2_ReferenceLabel # UndefinedSize
            THEN sent = C2_ReferenceLabel
            ELSE IF payload.size \notin {UndefinedSize, <<>>}
            THEN sent = coerceSizeToSupported(payload.size, rules)
            ELSE sent = rules[1].label

\* the label of a reference replaces a different size the caller asked for
C2_Witness ==
    /\ CreateSent
    /\ input.payload.size = L1280x720
    /\ C2_ReferenceLabel = L720x1280
    /\ vendorCalls[1].body.size = L720x1280

(* C3: the size createVideo sends is a label of the rule set of the        *)
(* request's model (the sora-2 rule set for an unknown model), whatever    *)
(* the payload.                                                            *)
C3_SentSizeIsSupported ==
    CreateSent =>
        vendorCalls[1].body.size \in
            Labels(getSizeRules(IF input.payload.model \in {Undefined, ""}
                                THEN "sora-2" ELSE input.payload.model))

(* C4, as stated: for every size string, the empty one included, and every *)
(* non-empty rule set, coerceSizeToSupported returns a label of the rule   *)
(* set.                                                                    *)
C4_AlwaysLabel ==
    CoerceSettled => output.label \in Labels(input.sizeRules)

(* C4, amended: for every non-empty size string and every non-empty rule   *)
(* set coerceSizeToSupported returns a label of the rule set; the empty    *)
(* string is returned as it is.                                            *)
C4_LabelUnlessEmpty ==
    CoerceSettled =>
        IF input.size = <<>> THEN output.label = <<>>
        ELSE output.label \in Labels(input.sizeRules)

\* a string that is neither a label nor a size is answered with a label
C4_Witness ==
    /\ CoerceSettled
    /\ input.size = <<"x", "g", " ">>
    /\ input.sizeRules = MODEL_SIZE_RULES["sora-2-pro"]
    /\ output.label = L1280x720

(* C5: when the size string, put in lower case, stripped of whitespace and *)
(* of every character but digits and x, with repeated x collapsed, equals  *)
(* a label of the rule set, coerceSizeToSupported returns that label.      *)
C5_NormalizedLabelWins ==
    ( CoerceSettled /\ NormalForm(input.size) \in Labels(input.sizeRules) )
    => output.label = NormalForm(input.size)

\* "1280 X 720" gives 1280x720
C5_Witness ==
    /\ CoerceSettled
    /\ input.size = <<"1", "2", "8", "0", " ", "X", " ", "7", "2", "0">>
    /\ input.sizeRules = MODEL_SIZE_RULES["sora-2"]
    /\ output.label = L1280x720

(* C6, as stated: a size string that is not of the form <width>x<height>   *)
(* or states a width or height that is not positive gives the first label  *)
(* of the rule set.                                                        *)
C6_FallbackToFirst ==
    ( CoerceSettled /\ ~StatesPositiveSize(NormalForm(input.size)) )
    => output.label = input.sizeRules[1].label

(* C6, amended: a non-empty size string that is not of the form            *)
(* <width>x<height> or states a width or height that is not positive gives *)
(* the first label of the rule set; the empty string is returned as it is. *)
C6_FallbackUnlessEmpty ==
    ( CoerceSettled /\ ~StatesPositiveSize(NormalForm(input.size)) )
    => IF input.size = <<>> THEN output.label = <<>>
       ELSE output.label = input.sizeRules[1].label

\* a zero height, with a rule set whose first rule is not the closest
C6_Witness ==
    /\ CoerceSettled
    /\ input.size = <<"7", "2", "0", "x", "0">>
    /\ input.sizeRules = MODEL_SIZE_RULES["sora-2"]
    /\ output.label = L1280x720

(* C7: the sizeLabel of a reference built with rule set R is absent or the *)
(* label of a rule of R.                                                   *)
C7_LabelFromRuleSet ==
    ( BuilderRan /\ ~output.outcome.threw )
    => \/ output.outcome.value.sizeLabel = UndefinedSize
       \/ output.outcome.value.sizeLabel \in Labels(input.sizeRules)

\* a resized image with a rule set that is not the default one
C7_Witness ==
    /\ BuilderRan
    /\ ~output.outcome.threw
    /\ input.sizeRules = PortraitOnlyRules
    /\ Len(output.sharpCalls) = 1
    /\ output.outcome.value.sizeLabel = L720x1280

(* C8: the builder fails exactly when the resolved MIME type is not one of *)
(* the four supported ones; the error then names the file name, lists the  *)
(* four supported types, and no reference is made and no resize is run.    *)
C8_UnsupportedTypeRejected ==
    BuilderRan =>
        IF BuilderResolved \notin SupportedTypes
        THEN /\ UnsupportedTypeFailure
             /\ output.outcome.error.filename = BuilderFilename
             /\ Len(output.outcome.error.supported) = 4
             /\ Range(output.outcome.error.supported) = SupportedTypes
             /\ output.sharpCalls = <<>>
        ELSE ~UnsupportedTypeFailure

\* a file whose name and declared type give no supported type
C8_Witness ==
    /\ BuilderRan
    /\ BuilderFilename = "README"
    /\ BuilderDeclared = "text/plain"
    /\ UnsupportedTypeFailure
    /\ output.outcome.error.filename = "README"

(* C9, as stated: with the declared MIME type image/gif the builder fails  *)
(* with the unsupported-type error naming the file name, for every file    *)
(* name.                                                                   *)
C9_GifAlwaysRejected ==
    ( BuilderRan /\ BuilderDeclared = "image/gif" )
    => /\ UnsupportedTypeFailure
       /\ output.outcome.error.filename = BuilderFilename

(* C9, amended: with the declared MIME type image/gif the builder fails    *)
(* with the unsupported-type error naming the file name, for every file    *)
(* name whose extension is not .jpg, .jpeg, .png, .webp or .mp4.           *)
C9_GifRejectedUnlessKnownExtension ==
    ( /\ BuilderRan
      /\ BuilderDeclared = "image/gif"
      /\ stringToLowerCase(extname(BuilderFilename)) \notin KnownExtensions )
    => /\ UnsupportedTypeFailure
       /\ output.outcome.error.filename = BuilderFilename

\* image/gif declared for a file without a name of its own
C9_Witness ==
    /\ op = "createInputReferenceFromBuffer"
    /\ input.buffer = Image(1280, 720)
    /\ input.filename = Undefined
    /\ input.mimeType = "image/gif"
    /\ UnsupportedTypeFailure
    /\ output.outcome.error.filename = "input-reference.bin"

\* image-size reads a width and a height from the bytes
Probeable(buffer) == buffer.readable /\ buffer.width > 0 /\ buffer.height > 0

(* C10: for video/mp4, and for an image type whose dimensions cannot be    *)
(* probed, the builder runs no resize, returns the input bytes, no         *)
(* sizeLabel, and does not fail.                                           *)
C10_NoResizeWithoutDimensions ==
    ( /\ BuilderRan
      /\ \/ BuilderResolved = "video/mp4"
         \/ /\ BuilderResolved \in {"image/jpeg", "image/png", "image/webp"}
            /\ ~Probeable(BuilderData) )
    => /\ ~output.outcome.threw
       /\ output.sharpCalls = <<>>
       /\ output.outcome.value.file.buffer = BuilderData
       /\ output.outcome.value.sizeLabel = UndefinedSize

\* an MP4 file name on bytes that image-size could read
C10_Witness ==
    /\ BuilderRan
    /\ BuilderResolved = "video/mp4"
    /\ BuilderData = Image(2000, 1000)
    /\ input.sizeRules = MODEL_SIZE_RULES["sora-2-pro"]
    /\ ~output.outcome.threw
    /\ output.outcome.value.file.buffer = Image(2000, 1000)

(* C11: for a rule set of MODEL_SIZE_RULES and a rule r of it, an image    *)
(* whose probed dimensions are those of r comes back with its bytes        *)
(* unchanged, without a resize, and with the sizeLabel r.label.            *)
C11_MatchingImageKept ==
    ( /\ BuilderRan
      /\ BuilderResolved \in {"image/jpeg", "image/png", "image/webp"}
      /\ Probeable(BuilderData)
      /\ \E model \in DOMAIN MODEL_SIZE_RULES : input.sizeRules = MODEL_SIZE_RULES[model] )
    => \A r \in Range(input.sizeRules) :
          ( r.width = BuilderData.width /\ r.height = BuilderData.height )
          => /\ ~output.outcome.threw
             /\ output.sharpCalls = <<>>
             /\ output.outcome.value.file.buffer = BuilderData
             /\ output.outcome.value.sizeLabel = r.label

\* a 1024x1792 image with the sora-2-pro rules, where the matching rule is
\* not the first of its orientation
C11_Witness ==
    /\ BuilderRan
    /\ BuilderData = Image(1024, 1792)
    /\ input.sizeRules = MODEL_SIZE_RULES["sora-2-pro"]
    /\ ~output.outcome.threw
    /\ output.sharpCalls = <<>>
    /\ output.outcome.value.sizeLabel = L1024x1792

\* the rule chooseSupportedVideoSize picks for the bytes the builder received
BuilderTarget ==
    chooseSupportedVideoSize(BuilderData.width, BuilderData.height, input.sizeRules)

\* the sharp format of the family of an image MIME type
FormatFamily(mimeType) ==
    IF mimeType = "image/jpeg" THEN "jpeg"
    ELSE IF mimeType = "image/png" THEN "png"
    ELSE "webp"

(* C12: for an image whose probed dimensions differ from the rule chosen   *)
(* for it, the builder runs one crop-to-fill resize to the width and       *)
(* height of that rule in the format family of the resolved MIME type, and *)
(* a reference it returns holds the resized bytes, of exactly these        *)
(* dimensions, and the label of that rule.                                 *)
C12_ResizedToChosenRule ==
    ( /\ BuilderRan
      /\ BuilderResolved \in {"image/jpeg", "image/png", "image/webp"}
      /\ Probeable(BuilderData)
      /\ Len(input.sizeRules) > 0
      /\ ~( BuilderTarget.width = BuilderData.width
            /\ BuilderTarget.height = BuilderData.height ) )
    => /\ Len(output.sharpCalls) = 1
       /\ output.sharpCalls[1].of = BuilderData
       /\ output.sharpCalls[1].width = BuilderTarget.width
       /\ output.sharpCalls[1].height = BuilderTarget.height
       /\ output.sharpCalls[1].fit = "cover"
       /\ output.sharpCalls[1].format = FormatFamily(BuilderResolved)
       /\ ~output.outcome.threw =>
             /\ output.outcome.value.file.buffer.content = "resized"
             /\ output.outcome.value.file.buffer.format = FormatFamily(BuilderResolved)
             /\ output.outcome.value.file.buffer.width = BuilderTarget.width
             /\ output.outcome.value.file.buffer.height = BuilderTarget.height
             /\ output.outcome.value.sizeLabel = BuilderTarget.label
             /\ \E r \in Range(input.sizeRules) :
                   /\ r.label = output.outcome.value.sizeLabel
                   /\ r.width = output.outcome.value.file.buffer.width
                   /\ r.height = output.outcome.value.file.buffer.height

\* a 2000x1280 JPEG cropped to 1792x1024
C12_Witness ==
    /\ BuilderRan
    /\ BuilderData = Image(2000, 1280)
    /\ BuilderResolved = "image/jpeg"
    /\ input.sizeRules = MODEL_SIZE_RULES["sora-2-pro"]
    /\ ~output.outcome.threw
    /\ output.outcome.value.file.buffer.width = 1792
    /\ output.outcome.value.file.buffer.height = 1024
    /\ output.outcome.value.file.buffer.format = "jpeg"
    /\ output.outcome.value.sizeLabel = L1792x1024

\* a createVideo call for sora-2-pro without a size whose only reference is a
\* 2000x1000 image read from input_reference_path has reached videos.create
C13_Case ==
    /\ CreateSent
    /\ input.payload.model = "sora-2-pro"
    /\ input.payload.size = UndefinedSize
    /\ input.payload.input_reference_path = "./guide.png"
    /\ input.data = Image(2000, 1000)

(* C13, as stated: that request is sent with size 1792x1024.               *)
C13_SentAs1792x1024 ==
    C13_Case => vendorCalls[1].body.size = L1792x1024

(* C13, amended: that request is sent with size 1280x720, the landscape    *)
(* label of sora-2-pro whose ratio (16:9) is closest to 2:1.               *)
C13_SentAs1280x720 ==
    C13_Case => vendorCalls[1].body.size = L1280x720

\* the request has been sent with the resized image
C13_Witness ==
    /\ C13_Case
    /\ vendorCalls[1].body.size = L1280x720
    /\ vendorCalls[1].body.input_reference.buffer.width = 1280
    /\ vendorCalls[1].body.input_reference.buffer.height = 720

\* rule i of pool is at least as close to width / height as rule j
AsClose(pool, i, j, width, height) ==
    LET ratio == Fraction(width, height)
        di == AbsDiff(Fraction(pool[i].width, pool[i].height), ratio)
        dj == AbsDiff(Fraction(pool[j].width, pool[j].height), ratio)
    IN  ~Less(dj, di)

\* the reference choice: the earliest of the closest rules of the pool
ReferenceChoice(width, height, sizeRules) ==
    LET same == { i \in 1..Len(sizeRules) :
                    (sizeRules[i].width >= sizeRules[i].height) = (width >= height) }
        pool == IF same = {} THEN 1..Len(sizeRules) ELSE same
        closest == { i \in pool : \A j \in pool : AsClose(sizeRules, i, j, width, height) }
    IN  sizeRules[CHOOSE i \in closest : \A j \in closest : i <= j]

(* C19: chooseSupportedVideoSize returns the rule of the candidate pool    *)
(* (the rules of the input's orientation, or all rules when there is none) *)
(* with the smallest ratio difference, the earliest one among equals.      *)
C19_EqualsReference ==
    ( /\ ChooseSettled
      /\ input.width > 0 /\ input.height > 0
      /\ Len(input.sizeRules) > 0 )
    => output.rule = ReferenceChoice(input.width, input.height, input.sizeRules)

\* two rules of ratio 16:9, of which the earlier one is returned
C19_Witness ==
    /\ ChooseSettled
    /\ input.width = 1280 /\ input.height = 720
    /\ input.sizeRules = SameRatioRules
    /\ output.rule = SizeRule(L640x360, 640, 360)

(* C20: a square input with the sora-2 rules gives the landscape rule      *)
(* 1280x720.                                                               *)
C20_SquareIsLandscape ==
    ( /\ ChooseSettled
      /\ input.width = input.height /\ input.width > 0
      /\ input.sizeRules = MODEL_SIZE_RULES["sora-2"] )
    => output.rule = SizeRule(L1280x720, 1280, 720)

\* 1000x1000
C20_Witness ==
    /\ ChooseSettled
    /\ input.width = 1000 /\ input.height = 1000
    /\ input.sizeRules = MODEL_SIZE_RULES["sora-2"]
    /\ output.rule.label = L1280x720

\* the operations that take the id of a video
IdOperations ==
    { "getVideo", "deleteVideo", "downloadVideo", "downloadVideoBuffer",
      "downloadVideoContent" }

(* C15: getVideo, deleteVideo, downloadVideo, downloadVideoBuffer and      *)
(* downloadVideoContent called with a missing or empty video id fail with  *)
(* a TypeError, make no vendor call and write no file.                     *)
C15_MissingIdRejected ==
    ( op \in IdOperations /\ input.videoId \in {Undefined, ""} )
    => /\ output.threw
       /\ output.error.name = "TypeError"
       /\ vendorCalls = <<>>
       /\ fsCalls = <<>>

\* downloadVideo with an empty id, although destination, disk and vendor would
\* let the download succeed
C15_Witness ==
    /\ op = "downloadVideo"
    /\ input.videoId = ""
    /\ input.destination = "out/video_1.mp4"
    /\ input.writable
    /\ ~input.vendorOutcome.threw
    /\ input.vendorOutcome.value.kind = "Buffer"
    /\ output.threw
    /\ fsCalls = <<>>

\* downloadVideoBuffer has received a payload from videos.downloadContent
DownloadAnswered ==
    /\ op = "downloadVideoBuffer"
    /\ Len(vendorCalls) = 1
    /\ ~input.vendorOutcome.threw

\* which of the four payload shapes of the specification a payload has, read
\* generously: an object holding the bytes, with an arrayBuffer method or in
\* its data property, counts as a stream-like wrapper
PayloadShape(resource) ==
    CASE resource.kind \in {"Buffer", "Uint8Array"} -> "in-memory byte buffer"
      [] resource.kind = "ReadableStream" -> "byte stream"
      [] resource.kind = "string" -> "base64 string"
      [] resource.kind \in {"Response", "BrokenResponse", "Blob"} -> "stream-like wrapper"
      [] /\ resource.kind = "object"
         /\ resource.data.kind \in {"Buffer", "Uint8Array", "string", "Blob"}
         -> "stream-like wrapper"
      [] OTHER -> "none"

\* the bytes a base64 text stands for
Decoded(text) == IF text = Base64OfVideo THEN "video" ELSE ""

\* the content of a payload
PayloadBytes(resource) ==
    CASE resource.kind = "string" -> Decoded(resource.bytes)
      [] resource.kind = "object" /\ resource.data.kind = "string"
         -> Decoded(resource.data.bytes)
      [] resource.kind = "object" -> resource.data.bytes
      [] OTHER -> resource.bytes

EmptyResponseFailure ==
    /\ output.threw
    /\ output.error.message = "No data returned from OpenAI when downloading video."

UnsupportedResponseFailure ==
    /\ output.threw
    /\ output.error.message = "Unsupported download response from OpenAI client."

(* C16, as stated: each of the four payload shapes (in-memory byte buffer, *)
(* byte stream, base64 string, stream-like wrapper) becomes a byte buffer  *)
(* with the payload's content; nothing usable gives the empty-response     *)
(* error; the unsupported-response error is raised exactly for the         *)
(* payloads of none of the four shapes.  A wrapper whose body cannot be    *)
(* read is left aside.                                                     *)
C16_FourShapesNormalized ==
    DownloadAnswered =>
        LET resource == input.vendorOutcome.value IN
        /\ ( PayloadShape(resource) # "none" /\ resource.kind # "BrokenResponse" )
              => output = Returned(VideoBuffer(PayloadBytes(resource)))
        /\ FalsyKind(resource.kind) => EmptyResponseFailure
        /\ UnsupportedResponseFailure
              <=> ( PayloadShape(resource) = "none" /\ ~FalsyKind(resource.kind) )

\* the payloads resourceToBuffer converts
Convertible(resource) ==
    \/ resource.kind \in {"Buffer", "Uint8Array", "Response", "Blob"}
    \/ /\ resource.kind = "object"
       /\ resource.data.kind \in {"Buffer", "Uint8Array", "string", "Blob"}

(* C16, amended: a Buffer, a Uint8Array, an object with an arrayBuffer     *)
(* method, and an object whose data property is a Buffer, a Uint8Array, a  *)
(* non-empty base64 string or an object with an arrayBuffer method become  *)
(* a byte buffer with the payload's content; a falsy payload gives the     *)
(* empty-response error; a failing arrayBuffer() gives its own error;      *)
(* every other payload, a bare string and a bare stream among them, gives  *)
(* the unsupported-response error.                                         *)
C16_Normalization ==
    DownloadAnswered =>
        LET resource == input.vendorOutcome.value IN
        /\ Convertible(resource)
              => output = Returned(VideoBuffer(PayloadBytes(resource)))
        /\ FalsyKind(resource.kind) => EmptyResponseFailure
        /\ resource.kind = "BrokenResponse"
              => output.threw /\ output.error.message = "terminated"
        /\ ( /\ ~Convertible(resource)
             /\ ~FalsyKind(resource.kind)
             /\ resource.kind # "BrokenResponse" )
              => UnsupportedResponseFailure

\* a base64 string in the data property has been decoded
C16_Witness ==
    /\ DownloadAnswered
    /\ input.vendorOutcome.value = Resource("object", "", Datum("string", Base64OfVideo))
    /\ output = Returned(VideoBuffer("video"))

\* the operations of the video client
ClientOperations ==
    { "createVideo", "listVideos", "getVideo", "deleteVideo", "downloadVideo",
      "downloadVideoBuffer", "downloadVideoContent" }

(* C17: a client operation calls the vendor API at most once; when that    *)
(* call fails or is cancelled the operation ends with the same error, has  *)
(* made no further vendor call and has written no file.                    *)
C17_NoRetry ==
    op \in ClientOperations =>
        /\ Len(vendorCalls) <= 1
        /\ ( Len(vendorCalls) = 1 /\ input.vendorOutcome.threw )
              => /\ output = input.vendorOutcome
                 /\ fsCalls = <<>>

\* a cancelled download
C17_Witness ==
    /\ op = "downloadVideo"
    /\ Len(vendorCalls) = 1
    /\ input.vendorOutcome.threw
    /\ input.vendorOutcome.error.name = "APIUserAbortError"
    /\ output = input.vendorOutcome
    /\ fsCalls = <<>>

\* a create request has reached videos.create through one of the three entry
\* points
CreateEntrySent ==
    /\ op \in {"createVideo", "handleCreate", "POST /api/videos"}
    /\ Len(vendorCalls) = 1

\* the request named no size and no reference
PlainRequestWithoutSize ==
    CASE op = "createVideo" ->
            /\ input.payload.size = UndefinedSize
            /\ input.payload.input_reference_path = Undefined
            /\ input.payload.input_reference = NoReference
      [] op = "handleCreate" -> FalsyString(trimText(input.inputReferencePath))
      [] op = "POST /api/videos" ->
            /\ input.request.size = UndefinedSize
            /\ input.request.file = NoUpload
            /\ input.request.input_reference_path = Undefined

(* C14: a create request without a size (and without a reference) is sent  *)
(* with the value of SORA_DEFAULT_SIZE when that is set and with 1280x720  *)
(* otherwise, whichever the entry point and the model.                     *)
C14_DefaultSizeSent ==
    ( CreateEntrySent /\ PlainRequestWithoutSize )
    => vendorCalls[1].body.size =
          IF SORA_DEFAULT_SIZE = UndefinedSize THEN L1280x720 ELSE SORA_DEFAULT_SIZE

\* the routes of the server
Routes ==
    { "POST /api/videos", "GET /api/videos", "GET /api/videos/:id",
      "DELETE /api/videos/:id", "GET /api/videos/:id/download" }

\* a route has answered with an error status
ErrorResponse == op \in Routes /\ output.status >= 400

\* the vendor call of the route failed
VendorFailed == Len(vendorCalls) = 1 /\ input.vendorOutcome.threw

MalformedJson == op = "POST /api/videos" /\ input.request.malformed

PromptBlank == input.request.prompt \in {Undefined, " "}

\* the uploaded file declares a type that is not supported, or the reference
\* cannot be built from it
UploadRejected ==
    LET file     == input.request.file
        declared == normalizeMimeType(file.mimetype)
        model    == IF input.request.model = Undefined THEN DEFAULT_MODEL
                    ELSE input.request.model
    IN  /\ file # NoUpload
        /\ \/ declared \notin SupportedTypes \cup {Undefined}
           \/ createInputReferenceFromBuffer(file.buffer, file.originalname, declared,
                                             getSizeRules(model)).outcome.threw

C21_RuleChoosesItself ==
    ( /\ ChooseSettled
      /\ \E model \in DOMAIN MODEL_SIZE_RULES : input.sizeRules = MODEL_SIZE_RULES[model] )
    => \A r \in Range(input.sizeRules) :
          ( r.width = input.width /\ r.height = input.height ) => output.rule = r

\* 1792x1024 with the sora-2-pro rules, where 1280x720 comes first among the
\* landscape rules
C21_Witness ==
    /\ ChooseSettled
    /\ input.width = 1792 /\ input.height = 1024
    /\ input.sizeRules = MODEL_SIZE_RULES["sora-2-pro"]
    /\ output.rule = SizeRule(L1792x1024, 1792, 1024)

\* a declared type, trimmed and in lower case
Canonical(declared) == stringToLowerCase(trim(declared))

\* the extension of a file name in lower case
LowerExtension(filename) ==
    stringToLowerCase(extname(IF filename = Undefined THEN "" ELSE filename))

\* the fixed extension table
ExtensionTable(ext) ==
    CASE ext \in {".jpg", ".jpeg"} -> "image/jpeg"
      [] ext = ".png" -> "image/png"
      [] ext = ".webp" -> "image/webp"
      [] ext = ".mp4" -> "video/mp4"

(* C22: inferMimeType gives (a) the declared type, trimmed and in lower    *)
(* case, when that is a supported type; otherwise (b) the type of the      *)
(* extension table for the extension of the file name, whatever its case;  *)
(* otherwise (c) the declared type as given, or undefined without one.     *)
C22_ResolutionOrder ==
    op = "inferMimeType" =>
        LET declared == input.fallbackMimeType
            ext      == LowerExtension(input.filename)
        IN  output.mimeType =
               IF declared \notin {Undefined, ""} /\ Canonical(declared) \in SupportedTypes
               THEN Canonical(declared)
               ELSE IF ext \in KnownExtensions THEN ExtensionTable(ext)
               ELSE IF declared \in {Undefined, ""} THEN Undefined
               ELSE declared

\* case (c): an unsupported declared type comes back as it was given
C22_Witness ==
    /\ op = "inferMimeType"
    /\ input.filename = "README"
    /\ input.fallbackMimeType = " Image/GIF"
    /\ output.mimeType = " Image/GIF"

(* C23: for a file name whose extension, in any letter case, maps to a     *)
(* supported type, ensureSupportedMimeType(inferMimeType(filename)) is     *)
(* that type in lower case, and ensureSupportedMimeType applied to the     *)
(* result returns the same value.                                          *)
C23_RoundTrip ==
    ( /\ op = "ensureSupportedMimeType"
      /\ LowerExtension(input.filename) \in KnownExtensions
      /\ input.mimeType = inferMimeType(input.filename, Undefined) )
    => /\ output.resolved = Returned(ExtensionTable(LowerExtension(input.filename)))
       /\ ensureSupportedMimeType(output.resolved.value, input.filename)
             = output.resolved

\* an extension in upper case
C23_Witness ==
    /\ op = "ensureSupportedMimeType"
    /\ input.filename = "GUIDE.PNG"
    /\ input.mimeType = "image/png"
    /\ output.resolved = Returned("image/png")

\* the writes createVideo makes show in the request body it sent
BodyDiffers ==
    /\ vendorCalls[1].body.size # input.payload.size
    /\ vendorCalls[1].body.input_reference # input.payload.input_reference.file

(* C26: createVideo leaves the caller's payload object as it was, whether  *)
(* it succeeds, fails its validation or the vendor call fails; the size,   *)
(* the file of the reference and the removal of input_reference_path are   *)
(* only in the body sent to the vendor API.                                *)
C26_PayloadUntouched ==
    op = "createVideo" => callerPayload = input.payload

\* a call with a path and a size that is no label: the body sent holds the
\* file read and the label of its dimensions, the payload still the path
C26_Witness ==
    /\ CreateSent
    /\ ~output.threw
    /\ input.payload.input_reference_path = "./guide.png"
    /\ input.payload.size = <<"g", "a", "r", "b", "a", "g", "e">>
    /\ BodyDiffers
    /\ callerPayload = input.payload

\* the list requests of refreshVideos in flight
ListRequests == SelectSeq(requests, LAMBDA request : request.to = "list")

(* C24: at most one list request of refreshVideos is in flight at any      *)
(* time, whatever the order of clicks, interval ticks and the refreshes    *)
(* after a create or a delete; and a refreshVideos call made while one is  *)
(* in flight returns without issuing a request.                            *)
C24_SingleFlight ==
    /\ [](Len(ListRequests) <= 1)
    /\ [][ ( Len(ListRequests) > 0 /\ event'.refresh # "none" )
           => ( event'.refresh = "skipped" /\ ListRequests' = ListRequests ) ]_vars

\* the refresh after a create found the refresh of another handler in flight
C24_Witness ==
    /\ Len(ListRequests) = 1
    /\ ListRequests[1].caller # "create"
    /\ event = Event("create", "skipped")

\* no refresh in flight and no reset callback waiting
Quiescent == Len(ListRequests) = 0 /\ timeouts = <<>>

(* C25: once no refresh is in flight and every reset callback has run, the *)
(* Refresh button is enabled and shows its original label; and the button  *)
(* is not enabled while a refresh is in flight.                            *)
C25_ButtonRestored ==
    /\ Quiescent => refreshBtn = Button(FALSE, OriginalLabel)
    /\ Len(ListRequests) > 0 => refreshBtn.disabled

====
